---- MODULE Spec2Model ----
(***************************************************************************)
(* A model of the terminal emulator (Vt100Terminal / Vt100Parser) and of   *)
(* the PTY capture driver (run_with_inputs_sized) of src/snapshot/pty.rs.  *)
(*                                                                         *)
(* The byte-level escape-sequence parser is the external vte crate.  What  *)
(* this repository implements is vte's Perform interface, so one call of   *)
(* process_byte is modelled by the callback vte makes for that byte:       *)
(* print, execute, csi_dispatch, esc_dispatch, or no callback at all.      *)
(*                                                                         *)
(* Rust indices are 0-based; sequences here are 1-based, so the cell       *)
(* buffer[row][col] of the source is buffer[row + 1][col + 1] here.        *)
(***************************************************************************)
EXTENDS Integers, Sequences, FiniteSets, TLC

VARIABLES
    size,       \* the (cols, rows) the emulator was constructed with
    terminal,   \* Vt100Parser.terminal : Vt100Terminal
    panicked,   \* TRUE once a call of process_byte has panicked
    nbytes,     \* number of process_byte calls made so far
    scrolled,   \* TRUE once write_char has scrolled the grid
    last_ev,    \* the callback of the latest process_byte call
    alt_hist,   \* the screen as it was at the latest entry into the alternate
                \* screen, and whether a character was printed inside since
    print_log,  \* the characters printed so far, while every callback since
                \* construction has been a print; None afterwards
    sgr_hist,   \* 1 when the latest callback was SGR 0 on a pen that was not
                \* the default one, 2 when it was the SGR sequence after
                \* that, 0 otherwise
    reset_run,  \* how many of the latest callbacks in a row were ESC c, up to
                \* 2, the first of them on a screen that held text
    \* run_with_inputs_sized (the driver)
    pc,         \* the driver's position in run_with_inputs_sized
    ret,        \* where drain_until_quiet_with_max returns to
    inputs,     \* the inputs argument: a sequence of strings
    loop_i,     \* the index i of the input loop
    captures,   \* the captures vector
    result,     \* what run_with_inputs_sized returned
    written,    \* the byte sequences handed to writer.write_all, in order
    flushed,    \* how many of them writer.flush has flushed
    maxElapsed,     \* start.elapsed() >= max_wait, as the driver's clock reads
    \* the child, the PTY and the reader thread
    child,      \* "none", "running", "zombie" (exited, not reaped), "reaped"
    child_next, \* the byte the child prints next
    ptyOut,     \* bytes the child has written that the reader has not read
    reader,     \* "none", "reading", "sending", "done"
    reader_chunk,   \* the reader's buffer[..size] between read and send
    queue,      \* the mpsc channel: chunks sent and not yet received
    rx_alive,   \* the Receiver exists (it is dropped when the run returns)
    \* history
    readLog,    \* the first MaxLog bytes the reader has read
    fedLog,     \* the first MaxLog bytes handed to ingest_chunk
    failed,     \* the fallible operation that failed, or "none"
    timedOut    \* TRUE once a settle phase has ended at its maximum

emuVars == <<size, terminal, panicked, nbytes, scrolled, last_ev, alt_hist,
             print_log, sgr_hist, reset_run>>
drvVars == <<pc, ret, inputs, loop_i, captures, result, written, flushed,
             maxElapsed>>
envVars == <<child, child_next, ptyOut, reader, reader_chunk, queue, rx_alive>>
histVars == <<readLog, fedLog, failed, timedOut>>
vars == <<emuVars, drvVars, envVars, histVars>>

-----------------------------------------------------------------------------
(* Bounds of the model *)

MaxCols == 2
MaxRows == 2
MaxBytes == 4
\* the driver's model: terminal size of a run, inputs per run, PTY buffer and
\* queue capacity, length of the history logs
RunCols == 2
RunRows == 1
MaxInputs == 2
MaxPty == 1
MaxQueue == 2
MaxLog == 3

-----------------------------------------------------------------------------
(* Helpers for Rust's integer and Option types *)

Min(a, b) == IF a < b THEN a ELSE b
Max(a, b) == IF a > b THEN a ELSE b

\* u32::saturating_sub
saturating_sub(a, b) == IF a > b THEN a - b ELSE 0

\* Ord::clamp
clamp(v, lo, hi) == IF v < lo THEN lo ELSE IF v > hi THEN hi ELSE v

\* Option<T>: None is the empty sequence, Some(v) the one-element sequence
None == <<>>
Some(v) == <<v>>
is_some(o) == o # <<>>
unwrap(o) == o[1]

-----------------------------------------------------------------------------
(* Colour tables and cell attributes *)

ANSI_COLORS ==
    << <<0, 0, 0>>, <<205, 49, 49>>, <<13, 188, 121>>, <<229, 229, 16>>,
       <<36, 114, 200>>, <<188, 63, 188>>, <<17, 168, 205>>, <<229, 229, 229>> >>

ANSI_BRIGHT_COLORS ==
    << <<102, 102, 102>>, <<241, 76, 76>>, <<35, 209, 139>>, <<245, 245, 67>>,
       <<59, 142, 234>>, <<214, 112, 214>>, <<41, 184, 219>>, <<255, 255, 255>> >>

WHITE == <<255, 255, 255>>
BLACK == <<0, 0, 0>>

clamp_u16_to_u8(value) == Min(value, 255)

\* u8 arithmetic as a release build computes it
u8(v) == v % 256

\* an intermediate value of xterm_256_to_rgb does not fit in a u8 (a panic in
\* a debug build, a wrapped value in a release build)
xterm_256_overflows(idx) ==
    idx >= 232 /\ ((idx - 232) * 10 > 255 \/ 8 + (idx - 232) * 10 > 255)

\* a faulty palette whose colour cube is in B, G, R order
xterm_256_to_rgb_bgr(idx) ==
    IF idx <= 7 THEN ANSI_COLORS[idx + 1]
    ELSE IF idx <= 15 THEN ANSI_BRIGHT_COLORS[(idx - 8) + 1]
    ELSE IF idx <= 231 THEN
        LET normalized == idx - 16
            r == normalized \div 36
            g == (normalized % 36) \div 6
            b == normalized % 6
            scale == <<0, 95, 135, 175, 215, 255>>
        IN  <<scale[b + 1], scale[g + 1], scale[r + 1]>>
    ELSE
        LET shade == u8(8 + u8((idx - 232) * 10))
        IN  <<shade, shade, shade>>

xterm_256_to_rgb(idx) ==
    IF idx <= 7 THEN ANSI_COLORS[idx + 1]
    ELSE IF idx <= 15 THEN ANSI_BRIGHT_COLORS[(idx - 8) + 1]
    ELSE IF idx <= 231 THEN
        LET normalized == idx - 16
            r == normalized \div 36
            g == (normalized % 36) \div 6
            b == normalized % 6
            scale == <<0, 95, 135, 175, 215, 255>>
        IN  <<scale[r + 1], scale[g + 1], scale[b + 1]>>
    ELSE
        LET shade == u8(8 + u8((idx - 232) * 10))
        IN  <<shade, shade, shade>>

\* CellAttributes::default()
CellAttributes_default == [bold |-> FALSE, underline |-> FALSE, inverse |-> FALSE]

-----------------------------------------------------------------------------
(* Vt100Terminal *)

\* vec![v; width] pushed height times
blank_rows(width, height, v) == [y \in 1..height |-> [x \in 1..width |-> v]]

Vt100Terminal_new(width, height) ==
    [ width |-> width,
      height |-> height,
      buffer |-> blank_rows(width, height, " "),
      fg_colors |-> blank_rows(width, height, WHITE),
      bg_colors |-> blank_rows(width, height, BLACK),
      attributes |-> blank_rows(width, height, CellAttributes_default),
      cursor_x |-> 0,
      cursor_y |-> 0,
      current_fg |-> WHITE,
      current_bg |-> BLACK,
      current_attrs |-> CellAttributes_default,
      default_fg |-> WHITE,
      default_bg |-> BLACK,
      saved_cursor |-> None,
      alternate_screen |-> None,
      in_alternate_screen |-> FALSE ]

\* whether buffer[row][col] (0-based) exists in all four cell buffers
in_bounds(t, row, col) ==
    /\ row + 1 <= Len(t.buffer) /\ col + 1 <= Len(t.buffer[row + 1])
    /\ row + 1 <= Len(t.fg_colors) /\ col + 1 <= Len(t.fg_colors[row + 1])
    /\ row + 1 <= Len(t.bg_colors) /\ col + 1 <= Len(t.bg_colors[row + 1])
    /\ row + 1 <= Len(t.attributes) /\ col + 1 <= Len(t.attributes[row + 1])

\* the four indexed assignments buffer[row][col] = ch; fg_colors[row][col] = fg; ...
set_cell(t, row, col, ch, fg, bg, attrs) ==
    [t EXCEPT !.buffer[row + 1][col + 1] = ch,
              !.fg_colors[row + 1][col + 1] = fg,
              !.bg_colors[row + 1][col + 1] = bg,
              !.attributes[row + 1][col + 1] = attrs]

\* the cells (row, col), 0-based, of a set, all assigned the same values
fill_cells(t, cells, ch, fg, bg, attrs) ==
    [t EXCEPT
        !.buffer = [y \in 1..Len(@) |-> [x \in 1..Len(@[y]) |->
                        IF <<y - 1, x - 1>> \in cells THEN ch ELSE @[y][x]]],
        !.fg_colors = [y \in 1..Len(@) |-> [x \in 1..Len(@[y]) |->
                        IF <<y - 1, x - 1>> \in cells THEN fg ELSE @[y][x]]],
        !.bg_colors = [y \in 1..Len(@) |-> [x \in 1..Len(@[y]) |->
                        IF <<y - 1, x - 1>> \in cells THEN bg ELSE @[y][x]]],
        !.attributes = [y \in 1..Len(@) |-> [x \in 1..Len(@[y]) |->
                        IF <<y - 1, x - 1>> \in cells THEN attrs ELSE @[y][x]]]]

some_out_of_bounds(t, cells) == \E c \in cells : ~in_bounds(t, c[1], c[2])

\* a faulty reset that keeps the background of the pen
reset_attributes_keeps_bg(t) ==
    [t EXCEPT !.current_fg = t.default_fg,
              !.current_attrs = CellAttributes_default]

reset_attributes(t) ==
    [t EXCEPT !.current_fg = t.default_fg,
              !.current_bg = t.default_bg,
              !.current_attrs = CellAttributes_default]

set_fg_color(t, color) == [t EXCEPT !.current_fg = color]
set_bg_color(t, color) == [t EXCEPT !.current_bg = color]
reset_fg(t) == [t EXCEPT !.current_fg = t.default_fg]
reset_bg(t) == [t EXCEPT !.current_bg = t.default_bg]
set_bold(t, enabled) == [t EXCEPT !.current_attrs.bold = enabled]
set_underline(t, enabled) == [t EXCEPT !.current_attrs.underline = enabled]
set_inverse(t, enabled) == [t EXCEPT !.current_attrs.inverse = enabled]

\* the cells visited by  for y in 0..height { for x in 0..width { ... } }
clear_cells(t) == {<<y, x>> : y \in 0..(t.height - 1), x \in 0..(t.width - 1)}

clear_panics(t) == some_out_of_bounds(t, clear_cells(t))

\* a faulty clear that fills with the colours of the pen
clear_with_pen(t) ==
    LET c == fill_cells(t, clear_cells(t), " ", t.current_fg, t.current_bg,
                        CellAttributes_default)
    IN  reset_attributes([c EXCEPT !.cursor_x = 0, !.cursor_y = 0,
                                   !.saved_cursor = None])

clear(t) ==
    LET c == fill_cells(t, clear_cells(t), " ", t.default_fg, t.default_bg,
                        CellAttributes_default)
    IN  reset_attributes([c EXCEPT !.cursor_x = 0, !.cursor_y = 0,
                                   !.saved_cursor = None])

\* a faulty write that stores the character with default attributes
write_char_wrapped_default_attrs(t, ch) ==
    LET a == IF ch = "\n" THEN [t EXCEPT !.cursor_y = @ + 1, !.cursor_x = 0]
             ELSE IF ch = "\r" THEN [t EXCEPT !.cursor_x = 0]
             ELSE IF ch = "\t" THEN [t EXCEPT !.cursor_x = ((@ \div 8) + 1) * 8]
             ELSE LET w == IF t.cursor_x < t.width /\ t.cursor_y < t.height
                           THEN set_cell(t, t.cursor_y, t.cursor_x, ch,
                                         t.current_fg, t.current_bg,
                                         CellAttributes_default)
                           ELSE t
                  IN  [w EXCEPT !.cursor_x = @ + 1]
    IN  IF a.cursor_x >= a.width
        THEN [a EXCEPT !.cursor_x = 0, !.cursor_y = @ + 1]
        ELSE a

\* write_char up to and including the line-wrapping block (lines 442-465)
write_char_wrapped(t, ch) ==
    LET a == IF ch = "\n" THEN [t EXCEPT !.cursor_y = @ + 1, !.cursor_x = 0]
             ELSE IF ch = "\r" THEN [t EXCEPT !.cursor_x = 0]
             ELSE IF ch = "\t" THEN [t EXCEPT !.cursor_x = ((@ \div 8) + 1) * 8]
             ELSE LET w == IF t.cursor_x < t.width /\ t.cursor_y < t.height
                           THEN set_cell(t, t.cursor_y, t.cursor_x, ch,
                                         t.current_fg, t.current_bg, t.current_attrs)
                           ELSE t
                  IN  [w EXCEPT !.cursor_x = @ + 1]
    IN  IF a.cursor_x >= a.width
        THEN [a EXCEPT !.cursor_x = 0, !.cursor_y = @ + 1]
        ELSE a

\* a faulty scroll that removes the top row and pushes no blank row
scroll_up_no_push(t) ==
    [t EXCEPT !.buffer = Tail(@),
              !.fg_colors = Tail(@),
              !.bg_colors = Tail(@),
              !.attributes = Tail(@),
              !.cursor_y = t.height - 1]

\* the scrolling block (lines 468-481): Vec::remove(0) on each buffer, push of a
\* blank row, cursor_y = height - 1
scroll_up(t) ==
    [t EXCEPT !.buffer = Append(Tail(@), [x \in 1..t.width |-> " "]),
              !.fg_colors = Append(Tail(@), [x \in 1..t.width |-> WHITE]),
              !.bg_colors = Append(Tail(@), [x \in 1..t.width |-> BLACK]),
              !.attributes = Append(Tail(@), [x \in 1..t.width |-> CellAttributes_default]),
              !.cursor_y = t.height - 1]

\* Vec::remove(0) panics on an empty vector.  (height - 1 would underflow only
\* when height = 0, where the first remove(0) has already panicked.)
scroll_up_panics(t) ==
    \/ Len(t.buffer) = 0
    \/ Len(t.fg_colors) = 0
    \/ Len(t.bg_colors) = 0
    \/ Len(t.attributes) = 0

is_control_char(ch) == ch \in {"\n", "\r", "\t"}

write_char_panics(t, ch) ==
    \/ /\ ~is_control_char(ch)
       /\ t.cursor_x < t.width /\ t.cursor_y < t.height
       /\ ~in_bounds(t, t.cursor_y, t.cursor_x)
    \/ LET b == write_char_wrapped(t, ch)
       IN  b.cursor_y >= b.height /\ scroll_up_panics(b)

write_char_scrolls(t, ch) ==
    LET b == write_char_wrapped(t, ch) IN b.cursor_y >= b.height

write_char(t, ch) ==
    LET b == write_char_wrapped(t, ch)
    IN  IF b.cursor_y >= b.height THEN scroll_up(b) ELSE b

move_cursor(t, x, y) ==
    [t EXCEPT !.cursor_x = Min(x, saturating_sub(t.width, 1)),
              !.cursor_y = Min(y, saturating_sub(t.height, 1))]

enter_alternate_screen_panics(t) == ~t.in_alternate_screen /\ clear_panics(t)

\* a faulty enter that saves and clears again when already in the alternate screen
enter_alternate_screen_unguarded(t) ==
    LET saved == [buffer |-> t.buffer,
                  fg_colors |-> t.fg_colors,
                  bg_colors |-> t.bg_colors,
                  attributes |-> t.attributes,
                  cursor_x |-> t.cursor_x,
                  cursor_y |-> t.cursor_y]
    IN  clear([t EXCEPT !.alternate_screen = Some(saved),
                        !.in_alternate_screen = TRUE])

enter_alternate_screen(t) ==
    IF t.in_alternate_screen THEN t
    ELSE LET saved == [buffer |-> t.buffer,
                       fg_colors |-> t.fg_colors,
                       bg_colors |-> t.bg_colors,
                       attributes |-> t.attributes,
                       cursor_x |-> t.cursor_x,
                       cursor_y |-> t.cursor_y]
         IN  clear([t EXCEPT !.alternate_screen = Some(saved),
                             !.in_alternate_screen = TRUE])

\* a faulty leave that restores the cells and keeps the cursor where it is
leave_alternate_screen_keeps_cursor(t) ==
    IF ~t.in_alternate_screen THEN t
    ELSE LET r == IF is_some(t.alternate_screen)
                  THEN LET saved == unwrap(t.alternate_screen)
                       IN  [t EXCEPT !.buffer = saved.buffer,
                                     !.fg_colors = saved.fg_colors,
                                     !.bg_colors = saved.bg_colors,
                                     !.attributes = saved.attributes,
                                     !.alternate_screen = None]
                  ELSE t
         IN  [r EXCEPT !.in_alternate_screen = FALSE]

leave_alternate_screen(t) ==
    IF ~t.in_alternate_screen THEN t
    ELSE LET r == IF is_some(t.alternate_screen)
                  THEN LET saved == unwrap(t.alternate_screen)
                       IN  [t EXCEPT !.buffer = saved.buffer,
                                     !.fg_colors = saved.fg_colors,
                                     !.bg_colors = saved.bg_colors,
                                     !.attributes = saved.attributes,
                                     !.cursor_x = saved.cursor_x,
                                     !.cursor_y = saved.cursor_y,
                                     !.alternate_screen = None]
                  ELSE t
         IN  [r EXCEPT !.in_alternate_screen = FALSE]

\* the cells visited by clear_line_from_cursor
clear_line_cells(t) ==
    IF t.cursor_y >= t.height THEN {}
    ELSE {<<t.cursor_y, x>> : x \in t.cursor_x..(t.width - 1)}

clear_line_from_cursor_panics(t) == some_out_of_bounds(t, clear_line_cells(t))

clear_line_from_cursor(t) ==
    fill_cells(t, clear_line_cells(t), " ", t.current_fg, t.current_bg,
               CellAttributes_default)

\* a faulty extent that starts one cell after the cursor
clear_from_cursor_cells_after_cursor(t) ==
    UNION { {<<y, x>> : x \in (IF y = t.cursor_y THEN t.cursor_x + 1 ELSE 0)..(t.width - 1)} :
            y \in t.cursor_y..(t.height - 1) }

\* the cells visited by clear_from_cursor
clear_from_cursor_cells(t) ==
    UNION { {<<y, x>> : x \in (IF y = t.cursor_y THEN t.cursor_x ELSE 0)..(t.width - 1)} :
            y \in t.cursor_y..(t.height - 1) }

clear_from_cursor_panics(t) == some_out_of_bounds(t, clear_from_cursor_cells(t))

clear_from_cursor(t) ==
    fill_cells(t, clear_from_cursor_cells(t), " ", t.current_fg, t.current_bg,
               CellAttributes_default)

move_cursor_rel(t, dx, dy) ==
    [t EXCEPT !.cursor_x = clamp(t.cursor_x + dx, 0, saturating_sub(t.width, 1)),
              !.cursor_y = clamp(t.cursor_y + dy, 0, saturating_sub(t.height, 1))]

save_cursor(t) == [t EXCEPT !.saved_cursor = Some(<<t.cursor_x, t.cursor_y>>)]

restore_cursor(t) ==
    IF is_some(t.saved_cursor)
    THEN LET xy == unwrap(t.saved_cursor)
         IN  [t EXCEPT !.cursor_x = Min(xy[1], saturating_sub(t.width, 1)),
                       !.cursor_y = Min(xy[2], saturating_sub(t.height, 1))]
    ELSE t

backspace(t) == IF t.cursor_x > 0 THEN [t EXCEPT !.cursor_x = @ - 1] ELSE t

-----------------------------------------------------------------------------
(* TerminalPerformer: the vte::Perform callbacks.  Params is a sequence of  *)
(* parameters, each a non-empty sequence of u16 subparameters.              *)

\* params.iter().nth(index).and_then(|p| p.first()).filter(|v| *v != 0).unwrap_or(default)
param_or(params, index, default) ==
    IF index + 1 <= Len(params) /\ Len(params[index + 1]) > 0 /\ params[index + 1][1] # 0
    THEN params[index + 1][1]
    ELSE default

\* params.iter().flat_map(|chunk| chunk.iter().copied()).collect()
RECURSIVE flatten(_)
flatten(params) ==
    IF params = <<>> THEN <<>> ELSE Head(params) \o flatten(Tail(params))

\* the while loop of handle_sgr, from index i (0-based) on
RECURSIVE sgr_loop(_, _, _)
sgr_loop(t, values, i) ==
    IF i >= Len(values) THEN t
    ELSE
        LET value == values[i + 1] IN
        IF value = 0 THEN sgr_loop(reset_attributes(t), values, i + 1)
        ELSE IF value = 1 THEN sgr_loop(set_bold(t, TRUE), values, i + 1)
        ELSE IF value = 4 THEN sgr_loop(set_underline(t, TRUE), values, i + 1)
        ELSE IF value = 7 THEN sgr_loop(set_inverse(t, TRUE), values, i + 1)
        ELSE IF value = 22 THEN sgr_loop(set_bold(t, FALSE), values, i + 1)
        ELSE IF value = 24 THEN sgr_loop(set_underline(t, FALSE), values, i + 1)
        ELSE IF value = 27 THEN sgr_loop(set_inverse(t, FALSE), values, i + 1)
        ELSE IF value \in 30..37
             THEN sgr_loop(set_fg_color(t, ANSI_COLORS[(value - 30) + 1]), values, i + 1)
        ELSE IF value \in 40..47
             THEN sgr_loop(set_bg_color(t, ANSI_COLORS[(value - 40) + 1]), values, i + 1)
        ELSE IF value \in 90..97
             THEN sgr_loop(set_fg_color(t, ANSI_BRIGHT_COLORS[(value - 90) + 1]), values, i + 1)
        ELSE IF value \in 100..107
             THEN sgr_loop(set_bg_color(t, ANSI_BRIGHT_COLORS[(value - 100) + 1]), values, i + 1)
        ELSE IF value \in {38, 48} THEN
            LET is_fg == (value = 38) IN
            IF i + 1 >= Len(values) THEN t                      \* break
            ELSE
                LET mode == values[i + 2] IN
                IF mode = 2 THEN
                    IF i + 4 >= Len(values) THEN t              \* break
                    ELSE LET color == <<clamp_u16_to_u8(values[i + 3]),
                                        clamp_u16_to_u8(values[i + 4]),
                                        clamp_u16_to_u8(values[i + 5])>>
                         IN  sgr_loop(IF is_fg THEN set_fg_color(t, color)
                                               ELSE set_bg_color(t, color),
                                      values, i + 5)
                ELSE IF mode = 5 THEN
                    IF i + 2 >= Len(values) THEN t              \* break
                    ELSE LET idx == values[i + 3] % 256         \* as u8
                             color == xterm_256_to_rgb(idx)
                         IN  sgr_loop(IF is_fg THEN set_fg_color(t, color)
                                               ELSE set_bg_color(t, color),
                                      values, i + 3)
                ELSE sgr_loop(t, values, i + 2)
        ELSE IF value = 39 THEN sgr_loop(reset_fg(t), values, i + 1)
        ELSE IF value = 49 THEN sgr_loop(reset_bg(t), values, i + 1)
        ELSE sgr_loop(t, values, i + 1)

handle_sgr(t, params) ==
    IF params = <<>> THEN reset_attributes(t)
    ELSE LET values == flatten(params)
         IN  IF values = <<>> THEN reset_attributes(t)
             ELSE sgr_loop(t, values, 0)

\* Perform::print
print(t, c) == write_char(t, c)
print_panics(t, c) == write_char_panics(t, c)

\* Perform::execute; bytes are numbers
execute_char(byte) ==
    IF byte = 10 THEN "\n" ELSE IF byte = 13 THEN "\r" ELSE "\t"

execute(t, byte) ==
    IF byte \in {10, 13, 9} THEN write_char(t, execute_char(byte))
    ELSE IF byte = 8 THEN backspace(t)
    ELSE t

execute_panics(t, byte) ==
    byte \in {10, 13, 9} /\ write_char_panics(t, execute_char(byte))

\* a faulty test that takes every h and l for a private one
private_mode_always(intermediates) == TRUE

\* intermediates.iter().any(|b| *b == b'?')
private_mode(intermediates) == \E k \in 1..Len(intermediates) : intermediates[k] = "?"

ALT_SCREEN_MODES == {47, 1047, 1049}

\* Perform::csi_dispatch
csi_dispatch(t, params, intermediates, action) ==
    IF action \in {"H", "f"} THEN
        LET row == saturating_sub(param_or(params, 0, 1), 1)
            col == saturating_sub(param_or(params, 1, 1), 1)
        IN  move_cursor(t, col, row)
    ELSE IF action = "A" THEN move_cursor_rel(t, 0, -param_or(params, 0, 1))
    ELSE IF action = "B" THEN move_cursor_rel(t, 0, param_or(params, 0, 1))
    ELSE IF action = "C" THEN move_cursor_rel(t, param_or(params, 0, 1), 0)
    ELSE IF action = "D" THEN move_cursor_rel(t, -param_or(params, 0, 1), 0)
    ELSE IF action = "J" THEN
        LET mode == param_or(params, 0, 0)
        IN  IF mode = 0 THEN clear_from_cursor(t)
            ELSE IF mode \in {2, 3} THEN clear(t)
            ELSE t
    ELSE IF action = "K" THEN clear_line_from_cursor(t)
    ELSE IF action = "m" THEN handle_sgr(t, params)
    ELSE IF action = "s" THEN save_cursor(t)
    ELSE IF action = "u" THEN restore_cursor(t)
    ELSE IF action = "h" /\ private_mode(intermediates) THEN
        IF param_or(params, 0, 0) \in ALT_SCREEN_MODES
        THEN enter_alternate_screen(t) ELSE t
    ELSE IF action = "l" /\ private_mode(intermediates) THEN
        IF param_or(params, 0, 0) \in ALT_SCREEN_MODES
        THEN leave_alternate_screen(t) ELSE t
    ELSE t

csi_dispatch_panics(t, params, intermediates, action) ==
    IF action = "J" THEN
        LET mode == param_or(params, 0, 0)
        IN  IF mode = 0 THEN clear_from_cursor_panics(t)
            ELSE IF mode \in {2, 3} THEN clear_panics(t)
            ELSE FALSE
    ELSE IF action = "K" THEN clear_line_from_cursor_panics(t)
    ELSE IF action = "h" /\ private_mode(intermediates) THEN
        param_or(params, 0, 0) \in ALT_SCREEN_MODES /\ enter_alternate_screen_panics(t)
    ELSE FALSE

\* a faulty ESC c that also leaves the alternate screen and drops its snapshot
esc_dispatch_reset_leaves_alt(t, byte) ==
    IF byte = "7" THEN save_cursor(t)
    ELSE IF byte = "8" THEN restore_cursor(t)
    ELSE IF byte = "c"
    THEN clear([t EXCEPT !.alternate_screen = None, !.in_alternate_screen = FALSE])
    ELSE t

\* Perform::esc_dispatch
esc_dispatch(t, byte) ==
    IF byte = "7" THEN save_cursor(t)
    ELSE IF byte = "8" THEN restore_cursor(t)
    ELSE IF byte = "c" THEN clear(t)
    ELSE t

esc_dispatch_panics(t, byte) == byte = "c" /\ clear_panics(t)

-----------------------------------------------------------------------------
(* Vt100Parser::process_byte, by the callback the vte parser makes          *)

EvNone == [kind |-> "none", c |-> "", params |-> <<>>, intermediates |-> <<>>]
EvPrint(ch) == [kind |-> "print", c |-> ch, params |-> <<>>, intermediates |-> <<>>]
EvExecute(b) == [kind |-> "execute", c |-> b, params |-> <<>>, intermediates |-> <<>>]
EvCsi(ps, is, a) == [kind |-> "csi", c |-> a, params |-> ps, intermediates |-> is]
EvEsc(b) == [kind |-> "esc", c |-> b, params |-> <<>>, intermediates |-> <<>>]

perform(t, ev) ==
    IF ev.kind = "print" THEN print(t, ev.c)
    ELSE IF ev.kind = "execute" THEN execute(t, ev.c)
    ELSE IF ev.kind = "csi" THEN csi_dispatch(t, ev.params, ev.intermediates, ev.c)
    ELSE IF ev.kind = "esc" THEN esc_dispatch(t, ev.c)
    ELSE t

perform_panics(t, ev) ==
    IF ev.kind = "print" THEN print_panics(t, ev.c)
    ELSE IF ev.kind = "execute" THEN execute_panics(t, ev.c)
    ELSE IF ev.kind = "csi" THEN csi_dispatch_panics(t, ev.params, ev.intermediates, ev.c)
    ELSE IF ev.kind = "esc" THEN esc_dispatch_panics(t, ev.c)
    ELSE FALSE

\* whether the callback runs the scrolling block of write_char
perform_scrolls(t, ev) ==
    \/ ev.kind = "print" /\ write_char_scrolls(t, ev.c)
    \/ ev.kind = "execute" /\ ev.c \in {10, 13, 9} /\ write_char_scrolls(t, execute_char(ev.c))

\* the inputs of the model: printable characters, C0 bytes, CSI and ESC sequences
PrintChars == {"A", "B"}
ExecBytes == {10, 13, 9, 8, 7}
\* one-subparameter parameters from a list of values
P(values) == [k \in 1..Len(values) |-> <<values[k]>>]
CsiInputs ==
    {EvCsi(P(ps), <<>>, "H") : ps \in {<<>>, <<2, 2>>, <<9, 9>>, <<0, 2>>}}
    \cup {EvCsi(P(<<1, 2>>), <<>>, "f")}
    \cup {EvCsi(P(ps), <<>>, a) : ps \in {<<>>, <<0>>, <<2>>}, a \in {"A", "B", "C", "D"}}
    \cup {EvCsi(P(ps), <<>>, "J") : ps \in {<<>>, <<1>>, <<2>>, <<3>>}}
    \cup {EvCsi(<<>>, <<>>, "K")}
    \cup {EvCsi(P(ps), <<>>, "m") : ps \in {<<>>, <<0>>, <<1>>, <<7, 4>>, <<31>>, <<48, 5, 4>>}}
    \cup {EvCsi(<<>>, <<>>, a) : a \in {"s", "u", "Z"}}
    \cup {EvCsi(P(<<m>>), <<"?">>, a) : m \in {47, 1047, 1049, 25}, a \in {"h", "l"}}
    \cup {EvCsi(P(<<1049>>), <<>>, "h"), EvCsi(P(<<47>>), <<>>, "l")}
EscInputs == {"7", "8", "c", "M"}

Sizes == (0..MaxCols) \X (0..MaxRows)

\* the grid and cursor of a terminal, as SavedScreen holds them
screen_of(t) ==
    [buffer |-> t.buffer, fg_colors |-> t.fg_colors, bg_colors |-> t.bg_colors,
     attributes |-> t.attributes, cursor_x |-> t.cursor_x, cursor_y |-> t.cursor_y]

\* the characters printed so far, after callback ev
record_print(log, ev) ==
    IF is_some(log) /\ ev.kind = "print" THEN Some(Append(unwrap(log), ev.c)) ELSE None

\* history of the alternate screen: nothing entered yet
NoAltHist == [saved |-> None, printed |-> FALSE]

\* the history after callback ev on terminal t
record_alt(h, t, ev) ==
    IF ~t.in_alternate_screen /\ perform(t, ev).in_alternate_screen
    THEN [saved |-> Some(screen_of(t)), printed |-> FALSE]
    ELSE IF t.in_alternate_screen /\ ev.kind = "print"
    THEN [h EXCEPT !.printed = TRUE]
    ELSE h

\* the pen of t is the default one
is_default_pen(t) ==
    /\ t.current_fg = t.default_fg
    /\ t.current_bg = t.default_bg
    /\ t.current_attrs = CellAttributes_default

\* SGR sequences, and SGR 0 among them
is_sgr(ev) == ev.kind = "csi" /\ ev.c = "m"
is_sgr_0(ev) == is_sgr(ev) /\ ev.params = <<<<0>>>>

\* the SGR history after callback ev on terminal t
record_sgr(h, t, ev) ==
    IF is_sgr_0(ev) /\ ~is_default_pen(t) THEN 1
    ELSE IF is_sgr(ev) /\ h = 1 THEN 2
    ELSE 0

\* ESC c, and the run of ESC c callbacks after callback ev on terminal t
is_reset(ev) == ev.kind = "esc" /\ ev.c = "c"
record_reset(n, t, ev) ==
    IF ~is_reset(ev) THEN 0
    ELSE IF n = 0
    THEN (IF \E y \in 1..Len(t.buffer) : \E x \in 1..Len(t.buffer[y]) :
                 t.buffer[y][x] # " "
          THEN 1 ELSE 0)
    ELSE 2

\* Vt100Parser::new
Vt100Parser_new(width, height) == Vt100Terminal_new(width, height)

Pending == [tag |-> "pending", captures |-> <<>>, error |-> ""]

\* no run in progress
DriverIdle ==
    /\ pc = "idle" /\ ret = "none" /\ inputs = <<>> /\ loop_i = 0
    /\ captures = <<>> /\ result = Pending /\ written = <<>> /\ flushed = 0
    /\ maxElapsed = FALSE
    /\ child = "none" /\ child_next = 65 /\ ptyOut = <<>>
    /\ reader = "none" /\ reader_chunk = <<>>
    /\ queue = <<>> /\ rx_alive = FALSE
    /\ readLog = <<>> /\ fedLog = <<>> /\ failed = "none" /\ timedOut = FALSE

Init ==
    /\ size \in Sizes
    /\ terminal = Vt100Parser_new(size[1], size[2])
    /\ panicked = FALSE
    /\ nbytes = 0
    /\ scrolled = FALSE
    /\ last_ev = EvNone
    /\ alt_hist = NoAltHist
    /\ print_log = Some(<<>>)
    /\ sgr_hist = 0
    /\ reset_run = 0
    /\ DriverIdle

\* A panic unwinds out of process_byte: the emulator is not used again, and
\* terminal keeps the state it had before the call.
process_byte(ev) ==
    /\ ~panicked
    /\ nbytes < MaxBytes
    /\ nbytes' = nbytes + 1
    /\ size' = size
    /\ last_ev' = ev
    /\ print_log' = record_print(print_log, ev)
    /\ sgr_hist' = record_sgr(sgr_hist, terminal, ev)
    /\ reset_run' = record_reset(reset_run, terminal, ev)
    /\ UNCHANGED <<drvVars, envVars, histVars>>
    /\ IF perform_panics(terminal, ev)
       THEN /\ panicked' = TRUE
            /\ UNCHANGED <<terminal, scrolled, alt_hist>>
       ELSE /\ panicked' = FALSE
            /\ terminal' = perform(terminal, ev)
            /\ scrolled' = (scrolled \/ perform_scrolls(terminal, ev))
            /\ alt_hist' = record_alt(alt_hist, terminal, ev)

FeedPrint == \E ch \in PrintChars : process_byte(EvPrint(ch))
FeedExecute == \E b \in ExecBytes : process_byte(EvExecute(b))
FeedCsi == \E ev \in CsiInputs : process_byte(ev)
FeedEsc == \E b \in EscInputs : process_byte(EvEsc(b))
FeedNoCallback == process_byte(EvNone)

Next == FeedPrint \/ FeedExecute \/ FeedCsi \/ FeedEsc \/ FeedNoCallback

Spec == Init /\ [][Next]_vars

-----------------------------------------------------------------------------
(* The pen under SGR sequences alone: a 1 x 1 emulator fed CSI ... m.  A    *)
(* parameter written with colons (38:2:1) is one parameter with             *)
(* subparameters; parameters separated by semicolons are separate ones.     *)

MaxSgr == 3

\* parameter lists made of values the emulator recognises
SgrKnown ==
    {P(ps) : ps \in {<<0>>, <<1>>, <<4>>, <<7>>, <<22>>, <<24>>, <<27>>, <<31>>, <<42>>,
                     <<93>>, <<104>>, <<39>>, <<49>>, <<1, 4, 7>>, <<4, 32>>,
                     <<38, 5, 4>>, <<48, 5, 200>>, <<38, 2, 1, 2, 300>>}}
    \cup {<< <<48, 2, 9, 8, 7>> >>, << <<38, 5, 1>>, <<1>> >>}

\* values the emulator does not recognise: an unknown code, 38 or 48 with an
\* unknown mode, and 38 or 48 with fewer subparameters than its mode needs
SgrUnknown ==
    { << <<99>> >>, << <<38>>, <<9>> >>, << <<48, 9>> >>,
      << <<38, 2, 1>> >>, << <<48, 5>> >> }

SgrTails == {<<>>, P(<<1>>), P(<<4, 32>>)}

SgrLists ==
    {<<>>} \cup SgrKnown \cup {u \o l : u \in SgrUnknown, l \in SgrTails}

InitSgr ==
    /\ size = <<1, 1>>
    /\ terminal = Vt100Parser_new(size[1], size[2])
    /\ panicked = FALSE
    /\ nbytes = 0
    /\ scrolled = FALSE
    /\ last_ev = EvNone
    /\ alt_hist = NoAltHist
    /\ print_log = Some(<<>>)
    /\ sgr_hist = 0
    /\ reset_run = 0
    /\ DriverIdle

FeedSgr == nbytes < MaxSgr /\ \E ps \in SgrLists : process_byte(EvCsi(ps, <<>>, "m"))

NextSgr == FeedSgr

SpecSgr == InitSgr /\ [][NextSgr]_vars

-----------------------------------------------------------------------------
(* The 256-colour palette: SGR 38;5;N and 48;5;N for every N a u8 holds.    *)

MaxPalette == 1
U8_MAX == 255

PaletteInputs == {EvCsi(P(<<layer, 5, N>>), <<>>, "m") : layer \in {38, 48}, N \in 0..U8_MAX}

FeedPalette == nbytes < MaxPalette /\ \E ev \in PaletteInputs : process_byte(ev)

NextPalette == FeedPalette

SpecPalette == InitSgr /\ [][NextPalette]_vars

-----------------------------------------------------------------------------
(* parse_input.  A string is the sequence of its bytes; the model's strings  *)
(* are ASCII, written with Str from their characters.                        *)

\* the characters with byte values 32..126, in order (bytes 34, 92 and 96, the
\* double quote, the backslash and the backtick, are written by name)
Ascii ==
    <<
       " ", "!", "DQUOTE", "#", "$", "%", "&", "'", "(", ")", "*", "+", ",", "-", ".", "/",
       "0", "1", "2", "3", "4", "5", "6", "7", "8", "9", ":", ";", "<", "=", ">", "?",
       "@", "A", "B", "C", "D", "E", "F", "G", "H", "I", "J", "K", "L", "M", "N", "O",
       "P", "Q", "R", "S", "T", "U", "V", "W", "X", "Y", "Z", "[", "BACKSLASH", "]", "^", "_",
       "BACKTICK", "a", "b", "c", "d", "e", "f", "g", "h", "i", "j", "k", "l", "m", "n", "o",
       "p", "q", "r", "s", "t", "u", "v", "w", "x", "y", "z", "{", "|", "}", "~"
    >>

byte_of(ch) == 31 + CHOOSE k \in 1..Len(Ascii) : Ascii[k] = ch
char_of(byte) == Ascii[byte - 31]
Str(chars) == [k \in 1..Len(chars) |-> byte_of(chars[k])]

\* char::to_ascii_lowercase / str::to_lowercase on ASCII
to_lowercase_byte(b) == IF b \in 65..90 THEN b + 32 ELSE b
\* a faulty lower-casing that leaves the string as it is
to_lowercase_identity(s) == s

to_lowercase(s) == [k \in 1..Len(s) |-> to_lowercase_byte(s[k])]

is_whitespace(b) == b \in {9, 10, 11, 12, 13, 32}

\* str::trim
RECURSIVE trim_start(_)
trim_start(s) ==
    IF s # <<>> /\ is_whitespace(Head(s)) THEN trim_start(Tail(s)) ELSE s
RECURSIVE trim_end(_)
trim_end(s) ==
    IF s # <<>> /\ is_whitespace(s[Len(s)]) THEN trim_end(SubSeq(s, 1, Len(s) - 1)) ELSE s
trim(s) == trim_end(trim_start(s))

starts_with(s, prefix) ==
    Len(s) >= Len(prefix) /\ SubSeq(s, 1, Len(prefix)) = prefix

\* s.split on + and -, then last(): what follows the last + or - (bytes 43, 45)
RECURSIVE last_segment(_)
last_segment(s) ==
    IF \E k \in 1..Len(s) : s[k] \in {43, 45}
    THEN LET k == CHOOSE j \in 1..Len(s) : s[j] \in {43, 45}
         IN  last_segment(SubSeq(s, k + 1, Len(s)))
    ELSE s

\* the literal arms of the match, in source order
KeyTable ==
    <<
       [names |-> {Str(<<"u", "p">>)},
        bytes |-> <<27, 91, 65>>],
       [names |-> {Str(<<"d", "o", "w", "n">>)},
        bytes |-> <<27, 91, 66>>],
       [names |-> {Str(<<"r", "i", "g", "h", "t">>)},
        bytes |-> <<27, 91, 67>>],
       [names |-> {Str(<<"l", "e", "f", "t">>)},
        bytes |-> <<27, 91, 68>>],
       [names |-> {Str(<<"h", "o", "m", "e">>)},
        bytes |-> <<27, 91, 72>>],
       [names |-> {Str(<<"e", "n", "d">>)},
        bytes |-> <<27, 91, 70>>],
       [names |-> {Str(<<"p", "a", "g", "e", "u", "p">>), Str(<<"p", "a", "g", "e", "_", "u", "p">>), Str(<<"p", "g", "u", "p">>)},
        bytes |-> <<27, 91, 53, 126>>],
       [names |-> {Str(<<"p", "a", "g", "e", "d", "o", "w", "n">>), Str(<<"p", "a", "g", "e", "_", "d", "o", "w", "n">>), Str(<<"p", "g", "d", "n">>)},
        bytes |-> <<27, 91, 54, 126>>],
       [names |-> {Str(<<"i", "n", "s", "e", "r", "t">>), Str(<<"i", "n", "s">>)},
        bytes |-> <<27, 91, 50, 126>>],
       [names |-> {Str(<<"d", "e", "l", "e", "t", "e">>), Str(<<"d", "e", "l">>)},
        bytes |-> <<27, 91, 51, 126>>],
       [names |-> {Str(<<"e", "n", "t", "e", "r">>), Str(<<"r", "e", "t", "u", "r", "n">>)},
        bytes |-> <<13>>],
       [names |-> {Str(<<"s", "p", "a", "c", "e">>)},
        bytes |-> <<32>>],
       [names |-> {Str(<<"t", "a", "b">>)},
        bytes |-> <<9>>],
       [names |-> {Str(<<"b", "a", "c", "k", "s", "p", "a", "c", "e">>), Str(<<"b", "s">>)},
        bytes |-> <<127>>],
       [names |-> {Str(<<"e", "s", "c", "a", "p", "e">>), Str(<<"e", "s", "c">>)},
        bytes |-> <<27>>],
       [names |-> {Str(<<"f", "1">>)},
        bytes |-> <<27, 79, 80>>],
       [names |-> {Str(<<"f", "2">>)},
        bytes |-> <<27, 79, 81>>],
       [names |-> {Str(<<"f", "3">>)},
        bytes |-> <<27, 79, 82>>],
       [names |-> {Str(<<"f", "4">>)},
        bytes |-> <<27, 79, 83>>],
       [names |-> {Str(<<"f", "5">>)},
        bytes |-> <<27, 91, 49, 53, 126>>],
       [names |-> {Str(<<"f", "6">>)},
        bytes |-> <<27, 91, 49, 55, 126>>],
       [names |-> {Str(<<"f", "7">>)},
        bytes |-> <<27, 91, 49, 56, 126>>],
       [names |-> {Str(<<"f", "8">>)},
        bytes |-> <<27, 91, 49, 57, 126>>],
       [names |-> {Str(<<"f", "9">>)},
        bytes |-> <<27, 91, 50, 48, 126>>],
       [names |-> {Str(<<"f", "1", "0">>)},
        bytes |-> <<27, 91, 50, 49, 126>>],
       [names |-> {Str(<<"f", "1", "1">>)},
        bytes |-> <<27, 91, 50, 51, 126>>],
       [names |-> {Str(<<"f", "1", "2">>)},
        bytes |-> <<27, 91, 50, 52, 126>>]
    >>

\* a faulty translation whose last arm passes the lower-cased, trimmed name
parse_input_lower_fallback(input) ==
    LET input_lower == trim(to_lowercase(input)) IN
    IF \E k \in 1..Len(KeyTable) : input_lower \in KeyTable[k].names
    THEN KeyTable[CHOOSE k \in 1..Len(KeyTable) : input_lower \in KeyTable[k].names].bytes
    ELSE IF \/ starts_with(input_lower, Str(<<"c", "t", "r", "l", "+">>))
            \/ starts_with(input_lower, Str(<<"c", "t", "r", "l", "-">>))
            \/ starts_with(input_lower, Str(<<"c", "-">>))
    THEN LET key == last_segment(input_lower) IN
         IF Len(key) = 1
         THEN LET ch == to_lowercase_byte(key[1])
              IN  IF ch \in 97..122 THEN <<ch - 97 + 1>> ELSE input
         ELSE IF key = Str(<<"s", "p", "a", "c", "e">>) THEN <<0>>
         ELSE input
    ELSE IF \/ starts_with(input_lower, Str(<<"a", "l", "t", "+">>))
            \/ starts_with(input_lower, Str(<<"a", "l", "t", "-">>))
            \/ starts_with(input_lower, Str(<<"m", "-">>))
    THEN <<27>> \o last_segment(input_lower)
    ELSE input_lower

parse_input(input) ==
    LET input_lower == trim(to_lowercase(input)) IN
    IF \E k \in 1..Len(KeyTable) : input_lower \in KeyTable[k].names
    THEN KeyTable[CHOOSE k \in 1..Len(KeyTable) : input_lower \in KeyTable[k].names].bytes
    ELSE IF \/ starts_with(input_lower, Str(<<"c", "t", "r", "l", "+">>))
            \/ starts_with(input_lower, Str(<<"c", "t", "r", "l", "-">>))
            \/ starts_with(input_lower, Str(<<"c", "-">>))
    THEN LET key == last_segment(input_lower) IN
         IF Len(key) = 1
         THEN LET ch == to_lowercase_byte(key[1])
              IN  IF ch \in 97..122 THEN <<ch - 97 + 1>> ELSE input
         ELSE IF key = Str(<<"s", "p", "a", "c", "e">>) THEN <<0>>
         ELSE input
    ELSE IF \/ starts_with(input_lower, Str(<<"a", "l", "t", "+">>))
            \/ starts_with(input_lower, Str(<<"a", "l", "t", "-">>))
            \/ starts_with(input_lower, Str(<<"m", "-">>))
    THEN <<27>> \o last_segment(input_lower)
    ELSE input

-----------------------------------------------------------------------------
(* parse_input alone: one input name, translated as the input loop of       *)
(* run_with_inputs_sized translates it before writer.write_all.  inputs     *)
(* holds the name and written receives the bytes.                           *)

\* str::to_uppercase on ASCII, and a name with its first letter in upper case
to_uppercase_byte(b) == IF b \in 97..122 THEN b - 32 ELSE b
to_uppercase(s) == [k \in 1..Len(s) |-> to_uppercase_byte(s[k])]
capitalize(s) == [k \in 1..Len(s) |-> IF k = 1 THEN to_uppercase_byte(s[k]) ELSE s[k]]

\* every name the match of parse_input lists, in three letter cases
TableNames == UNION {KeyTable[k].names : k \in 1..Len(KeyTable)}
TableInputs == TableNames \cup {to_uppercase(n) : n \in TableNames}
                          \cup {capitalize(n) : n \in TableNames}

\* ctrl+letter for every letter, in lower and in upper case
CTRL_PLUS == Str(<<"c", "t", "r", "l", "+">>)
CtrlLetterInputs ==
    {CTRL_PLUS \o <<b>> : b \in 97..122} \cup {to_uppercase(CTRL_PLUS) \o <<b>> : b \in 65..90}

CtrlInputs ==
    {Str(<<"c", "t", "r", "l", "-", "c">>), Str(<<"c", "-", "x">>),
      Str(<<"C", "-", "X">>),
      Str(<<"c", "t", "r", "l", "+", "s", "p", "a", "c", "e">>),
      Str(<<"C", "T", "R", "L", "+", "S", "P", "A", "C", "E">>),
      Str(<<"c", "t", "r", "l", "-", "s", "p", "a", "c", "e">>),
      Str(<<"C", "t", "r", "l", "+", "S", "p", "a", "c", "e">>),
      Str(<<" ", "c", "t", "r", "l", "+", "d", " ">>)}

AltInputs ==
    {Str(<<"a", "l", "t", "+", "x">>), Str(<<"a", "l", "t", "+", "X">>),
      Str(<<"A", "L", "T", "+", "x">>), Str(<<"A", "l", "t", "+", "U", "p">>),
      Str(<<"a", "l", "t", "+", "a", "-", "b">>),
      Str(<<"a", "l", "t", "+", "A", "+", "B">>),
      Str(<<"a", "l", "t", "-", "x">>), Str(<<"m", "-", "X">>),
      Str(<<"a", "l", "t", "+">>), Str(<<" ", "a", "l", "t", "+", "q">>)}

OtherInputs ==
    {Str(<<"q">>), Str(<<"Q">>), Str(<<"H", "e", "l", "l", "o">>),
      Str(<<"h", "i", " ", "t", "h", "e", "r", "e">>),
      Str(<<" ", "u", "p", " ">>), Str(<<"U", "p", " ">>),
      Str(<<"x", "+", "y">>), Str(<<"c", "-", "3", "p", "o">>),
      Str(<<"c", "t", "r", "l", "+", "1">>),
      Str(<<"c", "t", "r", "l", "+", "a", "b">>),
      Str(<<"c", "t", "r", "l", "+">>),
      Str(<<"C", "t", "r", "l", "+", "A", "b">>), Str(<<"a", "-", "b">>),
      Str(<<"F", "1", "3">>), Str(<<"a", "l", "t">>),
      Str(<<"p", "a", "g", "e", " ", "u", "p">>)}

KeyInputs == TableInputs \cup CtrlLetterInputs \cup CtrlInputs \cup AltInputs \cup OtherInputs

InitKeys ==
    /\ size = <<1, 1>>
    /\ terminal = Vt100Parser_new(size[1], size[2])
    /\ panicked = FALSE
    /\ nbytes = 0
    /\ scrolled = FALSE
    /\ last_ev = EvNone
    /\ alt_hist = NoAltHist
    /\ print_log = Some(<<>>)
    /\ sgr_hist = 0
    /\ reset_run = 0
    /\ pc = "idle" /\ ret = "none" /\ loop_i = 0
    /\ inputs \in {<<n>> : n \in KeyInputs}
    /\ captures = <<>> /\ result = Pending /\ written = <<>> /\ flushed = 0
    /\ maxElapsed = FALSE
    /\ child = "none" /\ child_next = 65 /\ ptyOut = <<>>
    /\ reader = "none" /\ reader_chunk = <<>>
    /\ queue = <<>> /\ rx_alive = FALSE
    /\ readLog = <<>> /\ fedLog = <<>> /\ failed = "none" /\ timedOut = FALSE

\* let sequence = parse_input(input); writer.write_all(&sequence)
TranslateInput ==
    /\ pc = "idle"
    /\ Len(inputs) = 1
    /\ written = <<>>
    /\ written' = <<parse_input(inputs[1])>>
    /\ UNCHANGED <<emuVars, pc, ret, inputs, loop_i, captures, result, flushed,
                   maxElapsed, envVars, histVars>>

NextKeys == TranslateInput

SpecKeys == InitKeys /\ [][NextKeys]_vars

\* key_to_sequence of pty.rs: the SendKey translation of
\* capture_cli_screenshot_pty
key_to_sequence(key) ==
    LET k == to_lowercase(key) IN
    IF k = Str(<<"u", "p">>) THEN <<27, 91, 65>>
    ELSE IF k = Str(<<"d", "o", "w", "n">>) THEN <<27, 91, 66>>
    ELSE IF k = Str(<<"r", "i", "g", "h", "t">>) THEN <<27, 91, 67>>
    ELSE IF k = Str(<<"l", "e", "f", "t">>) THEN <<27, 91, 68>>
    ELSE IF k = Str(<<"e", "n", "t", "e", "r">>) THEN <<13>>
    ELSE IF k = Str(<<"s", "p", "a", "c", "e">>) THEN <<32>>
    ELSE IF k = Str(<<"t", "a", "b">>) THEN <<9>>
    ELSE IF k = Str(<<"b", "a", "c", "k", "s", "p", "a", "c", "e">>) THEN <<8>>
    ELSE k

\* key_to_sequence of backend.rs: the SendKey translation of
\* PtyBackend::capture
backend_key_to_sequence(key) ==
    LET k == to_lowercase(key) IN
    IF k = Str(<<"u", "p">>) THEN <<27, 91, 65>>
    ELSE IF k = Str(<<"d", "o", "w", "n">>) THEN <<27, 91, 66>>
    ELSE IF k = Str(<<"r", "i", "g", "h", "t">>) THEN <<27, 91, 67>>
    ELSE IF k = Str(<<"l", "e", "f", "t">>) THEN <<27, 91, 68>>
    ELSE IF k = Str(<<"e", "n", "t", "e", "r">>) THEN <<13>>
    ELSE IF k = Str(<<"s", "p", "a", "c", "e">>) THEN <<32>>
    ELSE IF k = Str(<<"t", "a", "b">>) THEN <<9>>
    ELSE IF k = Str(<<"b", "a", "c", "k", "s", "p", "a", "c", "e">>) THEN <<8>>
    ELSE IF k \in {Str(<<"e", "s", "c", "a", "p", "e">>), Str(<<"e", "s", "c">>)} THEN <<27>>
    ELSE k

\* a SendKey input whose key is a name of the key table
InitSendKey ==
    /\ size = <<1, 1>>
    /\ terminal = Vt100Parser_new(size[1], size[2])
    /\ panicked = FALSE /\ nbytes = 0 /\ scrolled = FALSE
    /\ last_ev = EvNone /\ alt_hist = NoAltHist /\ print_log = Some(<<>>)
    /\ sgr_hist = 0
    /\ reset_run = 0
    /\ pc = "idle" /\ ret = "none" /\ loop_i = 0
    /\ inputs \in {<<n>> : n \in TableInputs}
    /\ captures = <<>> /\ result = Pending /\ written = <<>> /\ flushed = 0
    /\ maxElapsed = FALSE
    /\ child = "none" /\ child_next = 65 /\ ptyOut = <<>>
    /\ reader = "none" /\ reader_chunk = <<>>
    /\ queue = <<>> /\ rx_alive = FALSE
    /\ readLog = <<>> /\ fedLog = <<>> /\ failed = "none" /\ timedOut = FALSE

\* pty.rs: let sequence = key_to_sequence(key); writer.write_all(&sequence)
SendKeyPty ==
    /\ pc = "idle"
    /\ Len(inputs) = 1
    /\ written' = <<key_to_sequence(inputs[1])>>
    /\ pc' = "sent_pty"
    /\ UNCHANGED <<emuVars, ret, inputs, loop_i, captures, result, flushed,
                   maxElapsed, envVars, histVars>>

\* backend.rs: let sequence = key_to_sequence(key); writer.write_all(&sequence)
SendKeyBackend ==
    /\ pc = "idle"
    /\ Len(inputs) = 1
    /\ written' = <<backend_key_to_sequence(inputs[1])>>
    /\ pc' = "sent_backend"
    /\ UNCHANGED <<emuVars, ret, inputs, loop_i, captures, result, flushed,
                   maxElapsed, envVars, histVars>>

NextSendKey == SendKeyPty \/ SendKeyBackend

SpecSendKey == InitSendKey /\ [][NextSendKey]_vars

-----------------------------------------------------------------------------
(* Rasterization, cell by cell.  A glyph is named by the character it draws; *)
(* the pixels of a cell are its glyph painted in the cell's effective        *)
(* foreground on its effective background, with the underline rows added.    *)

\* a faulty brightening that wraps around instead of saturating
brighten_channel_wrapping(c) == Max((c + 64) % 256, Min(c * 4, 255) \div 3)

\* u8::saturating_add(64).max(u8::saturating_mul(4) / 3), per channel
brighten_channel(c) == Max(Min(c + 64, 255), Min(c * 4, 255) \div 3)
brighten_color(color) ==
    <<brighten_channel(color[1]), brighten_channel(color[2]), brighten_channel(color[3])>>

render_cell(t, y, x) ==
    LET attrs == t.attributes[y + 1][x + 1]
        fg0 == t.fg_colors[y + 1][x + 1]
        bg0 == t.bg_colors[y + 1][x + 1]
        fg1 == IF attrs.inverse THEN bg0 ELSE fg0
        bg1 == IF attrs.inverse THEN fg0 ELSE bg0
        fg2 == IF attrs.bold THEN brighten_color(fg1) ELSE fg1
    IN  [glyph |-> t.buffer[y + 1][x + 1], fg |-> fg2, bg |-> bg1,
         underline |-> attrs.underline]

render_to_image(t) ==
    [y \in 1..t.height |-> [x \in 1..t.width |-> render_cell(t, y - 1, x - 1)]]

\* img.write_to(.., ImageFormat::Png): a lossless encoding of the image
render_to_png(t) == [format |-> "png", image |-> render_to_image(t)]

CELL_WIDTH == 16
CELL_HEIGHT == 32

\* the font and scale constants
FONT_WIDTH == 8
FONT_HEIGHT == 16
PIXEL_SCALE == 2

\* BASIC_FONTS.get(ch) of the font8x8 crate, for the characters drawn here;
\* an all-zero glyph for the space
BASIC_FONTS(ch) ==
    IF ch = "A" THEN <<12, 30, 51, 51, 63, 51, 51, 0>>
    ELSE IF ch = "B" THEN <<63, 102, 102, 62, 102, 102, 63, 0>>
    ELSE <<0, 0, 0, 0, 0, 0, 0, 0>>

\* expand: out[idx * 2] = row; out[idx * 2 + 1] = row
expand(glyph) == [k \in 1..(2 * Len(glyph)) |-> glyph[((k - 1) \div 2) + 1]]

\* font8x8_bitmap through get_char_bitmap: the 16 rows of the glyph
get_char_bitmap(ch) == expand(BASIC_FONTS(ch))

\* (row >> px) & 1
glyph_bit(row, px) == (row \div (2 ^ px)) % 2

\* a faulty colour choice that draws the underline on the last glyph row only
pixel_color_thin_underline(cell, py, px) ==
    LET bit == glyph_bit(get_char_bitmap(cell.glyph)[py + 1], px)
        color == IF bit = 1 THEN cell.fg ELSE cell.bg
    IN  IF cell.underline /\ py >= FONT_HEIGHT - 1 THEN cell.fg ELSE color

\* the colour of glyph pixel (px, py) of a cell: fg where the bit is set,
\* else bg; if attrs.underline && py >= FONT_HEIGHT - 2 { color = fg }
pixel_color(cell, py, px) ==
    LET bit == glyph_bit(get_char_bitmap(cell.glyph)[py + 1], px)
        color == IF bit = 1 THEN cell.fg ELSE cell.bg
    IN  IF cell.underline /\ py >= FONT_HEIGHT - 2 THEN cell.fg ELSE color

\* a faulty rasterizer that also paints the cell under the cursor in its
\* foreground colour
put_pixel_calls_with_cursor(t) ==
    LET img_width == t.width * FONT_WIDTH * PIXEL_SCALE
        img_height == t.height * FONT_HEIGHT * PIXEL_SCALE
        calls ==
          { <<x * FONT_WIDTH * PIXEL_SCALE + px * PIXEL_SCALE + sx,
              y * FONT_HEIGHT * PIXEL_SCALE + py * PIXEL_SCALE + sy,
              IF x = t.cursor_x /\ y = t.cursor_y
              THEN render_cell(t, y, x).fg
              ELSE pixel_color(render_cell(t, y, x), py, px)>> :
              y \in 0..(t.height - 1), x \in 0..(t.width - 1),
              py \in 0..(FONT_HEIGHT - 1), px \in 0..(FONT_WIDTH - 1),
              sy \in 0..(PIXEL_SCALE - 1), sx \in 0..(PIXEL_SCALE - 1) }
    IN  { c \in calls : c[1] < img_width /\ c[2] < img_height }

\* the img.put_pixel(img_x, img_y, Rgb(color)) calls of render_to_image, as
\* <<img_x, img_y, color>>, one for every cell, glyph pixel and scale step
put_pixel_calls(t) ==
    LET img_width == t.width * FONT_WIDTH * PIXEL_SCALE
        img_height == t.height * FONT_HEIGHT * PIXEL_SCALE
        calls ==
          { <<x * FONT_WIDTH * PIXEL_SCALE + px * PIXEL_SCALE + sx,
              y * FONT_HEIGHT * PIXEL_SCALE + py * PIXEL_SCALE + sy,
              pixel_color(render_cell(t, y, x), py, px)>> :
              y \in 0..(t.height - 1), x \in 0..(t.width - 1),
              py \in 0..(FONT_HEIGHT - 1), px \in 0..(FONT_WIDTH - 1),
              sy \in 0..(PIXEL_SCALE - 1), sx \in 0..(PIXEL_SCALE - 1) }
    IN  { c \in calls : c[1] < img_width /\ c[2] < img_height }

\* render_to_image at the level of pixels: an ImageBuffer of img_width by
\* img_height pixels and the pixels put into it
render_pixels(t) ==
    [width |-> t.width * FONT_WIDTH * PIXEL_SCALE,
     height |-> t.height * FONT_HEIGHT * PIXEL_SCALE,
     pixels |-> put_pixel_calls(t)]

\* the grids that are rasterized: at most MaxCells cells
MaxCells == 2
RasterSizes ==
    {s \in (0..MaxCells) \X (0..MaxCells) : s[1] * s[2] <= MaxCells}
RasterChars == {"A", " "}
RasterFg == {<<200, 210, 220>>, <<0, 100, 255>>}
RasterBg == {<<10, 20, 30>>}
RasterAttrs == [bold : BOOLEAN, underline : BOOLEAN, inverse : BOOLEAN]

\* a terminal of the given size with the given cells
terminal_with_cells(s, chars, fgs, bgs, attrs) ==
    [Vt100Terminal_new(s[1], s[2]) EXCEPT
        !.buffer = chars, !.fg_colors = fgs, !.bg_colors = bgs,
        !.attributes = attrs]

\* the same cells in the alternate screen, with the cursor on the last cell,
\* a saved cursor and a pen that is not the default one
with_other_state(t) ==
    [t EXCEPT
        !.cursor_x = saturating_sub(t.width, 1),
        !.cursor_y = saturating_sub(t.height, 1),
        !.current_fg = ANSI_COLORS[2],
        !.current_bg = ANSI_COLORS[5],
        !.current_attrs = [bold |-> TRUE, underline |-> TRUE, inverse |-> TRUE],
        !.saved_cursor = Some(<<0, 0>>),
        !.alternate_screen =
            Some([buffer |-> blank_rows(t.width, t.height, "B"),
                  fg_colors |-> blank_rows(t.width, t.height, WHITE),
                  bg_colors |-> blank_rows(t.width, t.height, BLACK),
                  attributes |-> blank_rows(t.width, t.height, CellAttributes_default),
                  cursor_x |-> 0, cursor_y |-> 0]),
        !.in_alternate_screen = TRUE]

\* the grids of size s whose cells come from cells
grid_of(s, cells) == [1..s[2] -> [1..s[1] -> cells]]

InitRaster ==
    /\ size \in RasterSizes
    /\ \E chars \in grid_of(size, RasterChars), fgs \in grid_of(size, RasterFg),
          bgs \in grid_of(size, RasterBg), attrs \in grid_of(size, RasterAttrs),
          other \in BOOLEAN :
          terminal = IF other
                     THEN with_other_state(terminal_with_cells(size, chars, fgs, bgs, attrs))
                     ELSE terminal_with_cells(size, chars, fgs, bgs, attrs)
    /\ panicked = FALSE /\ nbytes = 0 /\ scrolled = FALSE
    /\ last_ev = EvNone /\ alt_hist = NoAltHist /\ print_log = Some(<<>>)
    /\ sgr_hist = 0
    /\ reset_run = 0
    /\ DriverIdle

\* let image = terminal.render_to_image(): it takes &self
Rasterize ==
    /\ pc = "idle"
    /\ captures = <<>>
    /\ captures' = <<render_pixels(terminal)>>
    /\ pc' = "rendered"
    /\ UNCHANGED <<emuVars, ret, inputs, loop_i, result, written, flushed,
                   maxElapsed, envVars, histVars>>

NextRaster == Rasterize

SpecRaster == InitRaster /\ [][NextRaster]_vars

\* one cell in bold whose foreground runs over every channel value
InitBold ==
    /\ size = <<1, 1>>
    /\ \E c \in 0..U8_MAX, ch \in RasterChars :
          terminal = terminal_with_cells(size, <<<<ch>>>>,
                        <<<< <<c, U8_MAX - c, (c + 128) % 256>> >>>>,
                        <<<< <<10, 20, 30>> >>>>,
                        <<<<[bold |-> TRUE, underline |-> FALSE, inverse |-> FALSE]>>>>)
    /\ panicked = FALSE /\ nbytes = 0 /\ scrolled = FALSE
    /\ last_ev = EvNone /\ alt_hist = NoAltHist /\ print_log = Some(<<>>)
    /\ sgr_hist = 0
    /\ reset_run = 0
    /\ DriverIdle

SpecBold == InitBold /\ [][NextRaster]_vars

-----------------------------------------------------------------------------
(* The PTY capture driver: run_with_inputs_sized, the reader thread, the     *)
(* child.  The clock is read through two observations, maxElapsed and        *)
(* which the passing of time turns TRUE.                       *)

Ok(cs) == [tag |-> "ok", captures |-> cs, error |-> ""]
Err(e) == [tag |-> "err", captures |-> <<>>, error |-> e]

\* the callback the vte parser makes for a byte in its ground state
vte_ground(byte) ==
    IF byte \in 32..126 THEN EvPrint(char_of(byte))
    ELSE IF byte \in 0..31 /\ byte # 27 THEN EvExecute(byte)
    ELSE EvNone

RECURSIVE ingest_chunk(_, _)
ingest_chunk(bytes, t) ==
    IF bytes = <<>> THEN t
    ELSE ingest_chunk(Tail(bytes), perform(t, vte_ground(Head(bytes))))

RECURSIVE ingest_chunk_panics(_, _)
ingest_chunk_panics(bytes, t) ==
    /\ bytes # <<>>
    /\ \/ perform_panics(t, vte_ground(Head(bytes)))
       \/ ingest_chunk_panics(Tail(bytes), perform(t, vte_ground(Head(bytes))))

\* a history log keeps its first MaxLog bytes
log_append(log, bytes) ==
    LET all == log \o bytes IN SubSeq(all, 1, Min(Len(all), MaxLog))

\* a faulty channel that delivers the newest chunk first
channel_send_front(q, bytes) == <<bytes>> \o q

\* tx.send(chunk) and rx.recv_timeout / rx.try_recv on the channel
channel_send(q, bytes) == Append(q, bytes)
channel_front(q) == Head(q)
channel_pop(q) == Tail(q)

\* the capture pushed before the input loop
initial_capture(t) ==
    [step |-> 0, input |-> None, image_data |-> render_to_png(t),
     width |-> t.width * CELL_WIDTH, height |-> t.height * CELL_HEIGHT]

\* a faulty capture that numbers input k's capture k instead of k + 1
input_capture_same_step(k, input, t) ==
    [step |-> k, input |-> Some(input), image_data |-> render_to_png(t),
     width |-> t.width * CELL_WIDTH, height |-> t.height * CELL_HEIGHT]

\* the capture pushed by iteration k (0-based) of the input loop
input_capture(k, input, t) ==
    [step |-> k + 1, input |-> Some(input), image_data |-> render_to_png(t),
     width |-> t.width * CELL_WIDTH, height |-> t.height * CELL_HEIGHT]

\* the inputs of a run
InputNames == {Str(<<"u", "p">>), Str(<<"Q">>)}
InputLists == UNION {[1..n -> InputNames] : n \in 0..MaxInputs}
\* the command under test: a program that prints A and B in turn, starting
\* with either, for as long as it runs
OutBytes == {65, 66}
next_output(b) == IF b = 65 THEN 66 ELSE 65

InitRun ==
    /\ size = <<RunCols, RunRows>>
    /\ terminal = Vt100Parser_new(size[1], size[2])
    /\ panicked = FALSE /\ nbytes = 0 /\ scrolled = FALSE
    /\ last_ev = EvNone /\ alt_hist = NoAltHist /\ print_log = Some(<<>>)
    /\ sgr_hist = 0
    /\ reset_run = 0
    /\ pc = "openpty" /\ ret = "none" /\ inputs \in InputLists /\ loop_i = 0
    /\ captures = <<>> /\ result = Pending /\ written = <<>> /\ flushed = 0
    /\ maxElapsed = FALSE
    /\ child = "none" /\ child_next \in OutBytes /\ ptyOut = <<>>
    /\ reader = "none" /\ reader_chunk = <<>>
    /\ queue = <<>> /\ rx_alive = FALSE
    /\ readLog = <<>> /\ fedLog = <<>> /\ failed = "none" /\ timedOut = FALSE

\* return value: the function returns, its locals (the Receiver among them) are dropped
return_with(res) ==
    /\ pc' = "done"
    /\ result' = res
    /\ rx_alive' = FALSE

\* a faulty error path that returns the captures taken so far
propagate_partial(op) == return_with(Ok(captures)) /\ failed' = op

\* the ? operator on the Err of operation op
propagate(op) == return_with(Err(op)) /\ failed' = op

\* start = Instant::now(); last_activity = Instant::now(); then the loop
call_drain(r) ==
    /\ pc' = "drain_check"
    /\ ret' = r
    /\ maxElapsed' = FALSE

\* a faulty receive that counts a chunk as received and does not feed it
ingest_front_skip ==
    /\ queue' = channel_pop(queue)
    /\ fedLog' = log_append(fedLog, channel_front(queue))
    /\ panicked' = panicked
    /\ terminal' = terminal

\* Ok(chunk) => ingest_chunk(&chunk, parser)
ingest_front ==
    /\ queue' = channel_pop(queue)
    /\ fedLog' = log_append(fedLog, channel_front(queue))
    /\ IF ingest_chunk_panics(channel_front(queue), terminal)
       THEN panicked' = TRUE /\ terminal' = terminal
       ELSE panicked' = FALSE /\ terminal' = ingest_chunk(channel_front(queue), terminal)

OpenPty ==
    /\ pc = "openpty"
    /\ \/ /\ pc' = "spawn"
          /\ UNCHANGED <<result, rx_alive, failed>>
       \/ propagate("openpty")
    /\ UNCHANGED <<emuVars, ret, inputs, loop_i, captures, written, flushed,
                   maxElapsed, child, ptyOut, child_next, reader, reader_chunk,
                   queue, readLog, fedLog, timedOut>>

SpawnCommand ==
    /\ pc = "spawn"
    /\ \/ /\ pc' = "clone_reader"
          /\ child' = "running"
          /\ UNCHANGED <<result, rx_alive, failed>>
       \/ propagate("spawn_command") /\ UNCHANGED child
    /\ UNCHANGED <<emuVars, ret, inputs, loop_i, captures, written, flushed,
                   maxElapsed, ptyOut, child_next, reader, reader_chunk, queue,
                   readLog, fedLog, timedOut>>

CloneReader ==
    /\ pc = "clone_reader"
    /\ \/ /\ pc' = "take_writer"
          /\ UNCHANGED <<result, rx_alive, failed>>
       \/ propagate("try_clone_reader")
    /\ UNCHANGED <<emuVars, ret, inputs, loop_i, captures, written, flushed,
                   maxElapsed, child, ptyOut, child_next, reader, reader_chunk,
                   queue, readLog, fedLog, timedOut>>

TakeWriter ==
    /\ pc = "take_writer"
    /\ \/ /\ pc' = "spawn_reader"
          /\ UNCHANGED <<result, rx_alive, failed>>
       \/ propagate("take_writer")
    /\ UNCHANGED <<emuVars, ret, inputs, loop_i, captures, written, flushed,
                   maxElapsed, child, ptyOut, child_next, reader, reader_chunk,
                   queue, readLog, fedLog, timedOut>>

\* spawn_reader, then wait_for_initial_render
SpawnReader ==
    /\ pc = "spawn_reader"
    /\ reader' = "reading"
    /\ rx_alive' = TRUE
    /\ call_drain("capture_initial")
    /\ UNCHANGED <<emuVars, inputs, loop_i, captures, result, written, flushed,
                   child, ptyOut, child_next, reader_chunk, queue, histVars>>

\* drain_until_quiet_with_max: if start.elapsed() >= max_wait { break; }
DrainCheck ==
    /\ pc = "drain_check"
    /\ IF maxElapsed
       THEN pc' = "final_drain" /\ timedOut' = TRUE /\ maxElapsed' = FALSE
       ELSE pc' = "drain_recv" /\ timedOut' = timedOut /\ maxElapsed' = maxElapsed
    /\ UNCHANGED <<emuVars, ret, inputs, loop_i, captures, result, written, flushed,
                   envVars, readLog, fedLog, failed>>

\* drain_until_quiet_with_max: match rx.recv_timeout(50 ms)
DrainRecv ==
    /\ pc = "drain_recv"
    /\ \/ \* Ok(chunk): ingest, last_activity = now
          /\ queue # <<>>
          /\ ingest_front
          /\ pc' = "drain_check"
          /\ maxElapsed' = maxElapsed
       \/ \* Err(Timeout), last_activity.elapsed() < QUIET_WINDOW
          /\ queue = <<>> /\ reader # "done"
          /\ pc' = "drain_check"
          /\ UNCHANGED <<queue, fedLog, terminal, panicked, maxElapsed>>
       \/ \* Err(Timeout), last_activity.elapsed() >= QUIET_WINDOW: break
          /\ queue = <<>> /\ reader # "done"
          /\ pc' = "final_drain"
          /\ maxElapsed' = FALSE
          /\ UNCHANGED <<queue, fedLog, terminal, panicked>>
       \/ \* Err(Disconnected): break
          /\ queue = <<>> /\ reader = "done"
          /\ pc' = "final_drain"
          /\ maxElapsed' = FALSE
          /\ UNCHANGED <<queue, fedLog, terminal, panicked>>
    /\ UNCHANGED <<size, nbytes, scrolled, last_ev, alt_hist, print_log, sgr_hist,
                   reset_run, ret, inputs,
                   loop_i, captures, result, written, flushed, child, ptyOut,
                   child_next, reader, reader_chunk, rx_alive, readLog, failed,
                   timedOut>>

\* a faulty settle end that returns without the non-blocking drain
FinalDrain_no_drain ==
    /\ pc = "final_drain"
    /\ pc' = ret /\ UNCHANGED <<queue, fedLog, terminal, panicked>>
    /\ UNCHANGED <<size, nbytes, scrolled, last_ev, alt_hist, print_log, sgr_hist,
                   reset_run, ret, inputs,
                   loop_i, captures, result, written, flushed, maxElapsed, child,
                   ptyOut, child_next, reader, reader_chunk, rx_alive, readLog,
                   failed, timedOut>>

\* drain_until_quiet_with_max: while let Ok(chunk) = rx.try_recv() { ingest }
FinalDrain ==
    /\ pc = "final_drain"
    /\ IF queue # <<>>
       THEN ingest_front /\ pc' = pc
       ELSE pc' = ret /\ UNCHANGED <<queue, fedLog, terminal, panicked>>
    /\ UNCHANGED <<size, nbytes, scrolled, last_ev, alt_hist, print_log, sgr_hist,
                   reset_run, ret, inputs,
                   loop_i, captures, result, written, flushed, maxElapsed, child,
                   ptyOut, child_next, reader, reader_chunk, rx_alive, readLog,
                   failed, timedOut>>

\* captures.push(StateCaptureResult { step: 0, input: None, .. }), then the loop test
CaptureInitial ==
    /\ pc = "capture_initial"
    /\ captures' = Append(captures, initial_capture(terminal))
    /\ pc' = IF loop_i < Len(inputs) THEN "sleep" ELSE "drop_writer"
    /\ UNCHANGED <<emuVars, ret, inputs, loop_i, result, written, flushed,
                   maxElapsed, envVars, histVars>>

\* thread::sleep(input_delay_ms)
Sleep ==
    /\ pc = "sleep"
    /\ pc' = "write_all"
    /\ UNCHANGED <<emuVars, ret, inputs, loop_i, captures, result, written, flushed,
                   maxElapsed, envVars, histVars>>

\* writer.write_all(&parse_input(input))?
WriteInput ==
    /\ pc = "write_all"
    /\ \/ /\ written' = Append(written, parse_input(inputs[loop_i + 1]))
          /\ pc' = "flush"
          /\ UNCHANGED <<result, rx_alive, failed>>
       \/ propagate("write_all") /\ UNCHANGED written
    /\ UNCHANGED <<emuVars, ret, inputs, loop_i, captures, flushed, maxElapsed,
                   child, ptyOut, child_next, reader, reader_chunk, queue, readLog,
                   fedLog, timedOut>>

\* a faulty step that starts the settle without flushing the writer
FlushInput_skipped ==
    /\ pc = "flush"
    /\ \/ /\ flushed' = flushed
          /\ call_drain("capture_input")
          /\ UNCHANGED <<result, rx_alive, failed>>
       \/ /\ propagate("flush")
          /\ UNCHANGED <<flushed, ret, maxElapsed>>
    /\ UNCHANGED <<emuVars, inputs, loop_i, captures, written, child, ptyOut,
                   child_next, reader, reader_chunk, queue, readLog, fedLog,
                   timedOut>>

\* writer.flush()?, then wait_for_input_render
FlushInput ==
    /\ pc = "flush"
    /\ \/ /\ flushed' = Len(written)
          /\ call_drain("capture_input")
          /\ UNCHANGED <<result, rx_alive, failed>>
       \/ /\ propagate("flush")
          /\ UNCHANGED <<flushed, ret, maxElapsed>>
    /\ UNCHANGED <<emuVars, inputs, loop_i, captures, written, child, ptyOut,
                   child_next, reader, reader_chunk, queue, readLog, fedLog,
                   timedOut>>

\* captures.push(StateCaptureResult { step: i + 1, input: Some(input.clone()), .. })
CaptureInput ==
    /\ pc = "capture_input"
    /\ captures' = Append(captures, input_capture(loop_i, inputs[loop_i + 1], terminal))
    /\ loop_i' = loop_i + 1
    /\ pc' = IF loop_i + 1 < Len(inputs) THEN "sleep" ELSE "drop_writer"
    /\ UNCHANGED <<emuVars, ret, inputs, result, written, flushed, maxElapsed,
                   envVars, histVars>>

\* drop(writer); wait_for_process_exit: let start = Instant::now()
DropWriter ==
    /\ pc = "drop_writer"
    /\ pc' = "exit_try_wait"
    /\ maxElapsed' = FALSE
    /\ UNCHANGED <<emuVars, ret, inputs, loop_i, captures, result, written, flushed,
                   envVars, histVars>>

\* wait_for_process_exit: match child.try_wait()
ExitTryWait ==
    /\ pc = "exit_try_wait"
    /\ \/ \* Ok(Some(_)): drain_until_quiet, return
          /\ child # "running"
          /\ child' = "reaped"
          /\ call_drain("final_try_wait")
       \/ \* Ok(None)
          /\ child = "running"
          /\ pc' = "exit_deadline"
          /\ UNCHANGED <<child, ret, maxElapsed>>
       \/ \* Err(err): warning, break
          /\ pc' = "final_try_wait"
          /\ maxElapsed' = FALSE
          /\ UNCHANGED <<child, ret>>
    /\ UNCHANGED <<emuVars, inputs, loop_i, captures, result, written, flushed,
                   ptyOut, child_next, reader, reader_chunk, queue, rx_alive, histVars>>

\* wait_for_process_exit: if start.elapsed() >= max_wait { break; }
ExitDeadline ==
    /\ pc = "exit_deadline"
    /\ IF maxElapsed
       THEN pc' = "final_try_wait" /\ maxElapsed' = FALSE
       ELSE pc' = "exit_recv" /\ maxElapsed' = maxElapsed
    /\ UNCHANGED <<emuVars, ret, inputs, loop_i, captures, result, written, flushed,
                   envVars, histVars>>

\* wait_for_process_exit: match rx.recv_timeout(60 ms)
ExitRecv ==
    /\ pc = "exit_recv"
    /\ \/ \* Ok(chunk)
          /\ queue # <<>>
          /\ ingest_front
          /\ pc' = "exit_try_wait"
          /\ maxElapsed' = maxElapsed
       \/ \* Err(Timeout)
          /\ queue = <<>> /\ reader # "done"
          /\ pc' = "exit_try_wait"
          /\ UNCHANGED <<queue, fedLog, terminal, panicked, maxElapsed>>
       \/ \* Err(Disconnected): break
          /\ queue = <<>> /\ reader = "done"
          /\ pc' = "final_try_wait"
          /\ maxElapsed' = FALSE
          /\ UNCHANGED <<queue, fedLog, terminal, panicked>>
    /\ UNCHANGED <<size, nbytes, scrolled, last_ev, alt_hist, print_log, sgr_hist,
                   reset_run, ret, inputs,
                   loop_i, captures, result, written, flushed, child, ptyOut,
                   child_next, reader, reader_chunk, rx_alive, readLog, failed,
                   timedOut>>

\* if child.try_wait()?.is_none() { kill; wait }  Ok(captures)
FinalTryWait ==
    /\ pc = "final_try_wait"
    /\ \/ /\ propagate("try_wait")
          /\ UNCHANGED child
       \/ /\ child = "running"
          /\ pc' = "kill"
          /\ UNCHANGED <<child, result, rx_alive, failed>>
       \/ /\ child # "running"
          /\ child' = "reaped"
          /\ return_with(Ok(captures))
          /\ UNCHANGED failed
    /\ UNCHANGED <<emuVars, ret, inputs, loop_i, captures, written, flushed,
                   maxElapsed, ptyOut, child_next, reader, reader_chunk, queue,
                   readLog, fedLog, timedOut>>

\* let _ = child.kill();
KillChild ==
    /\ pc = "kill"
    /\ child' = IF child = "running" THEN "zombie" ELSE child
    /\ pc' = "wait"
    /\ UNCHANGED <<emuVars, ret, inputs, loop_i, captures, result, written, flushed,
                   maxElapsed, ptyOut, child_next, reader, reader_chunk, queue,
                   rx_alive, histVars>>

\* let _ = child.wait();  Ok(captures)
WaitChild ==
    /\ pc = "wait"
    /\ child # "running"
    /\ child' = "reaped"
    /\ return_with(Ok(captures))
    /\ UNCHANGED <<emuVars, ret, inputs, loop_i, captures, written, flushed,
                   maxElapsed, ptyOut, child_next, reader, reader_chunk, queue,
                   histVars>>

\* the child writes a byte to its terminal
ChildEmit ==
    /\ child = "running"
    /\ Len(ptyOut) < MaxPty
    /\ ptyOut' = Append(ptyOut, child_next)
    /\ child_next' = next_output(child_next)
    /\ UNCHANGED <<emuVars, drvVars, child, reader, reader_chunk, queue, rx_alive,
                   histVars>>

\* the child exits on its own
ChildExit ==
    /\ child = "running"
    /\ child' = "zombie"
    /\ UNCHANGED <<emuVars, drvVars, ptyOut, child_next, reader, reader_chunk, queue,
                   rx_alive, histVars>>

\* reader thread: reader.read(&mut buffer) returns Ok(size), size > 0
ReaderRead ==
    /\ reader = "reading"
    /\ ptyOut # <<>>
    /\ \E n \in 1..Len(ptyOut) :
          /\ reader_chunk' = SubSeq(ptyOut, 1, n)
          /\ ptyOut' = SubSeq(ptyOut, n + 1, Len(ptyOut))
          /\ readLog' = log_append(readLog, SubSeq(ptyOut, 1, n))
    /\ reader' = "sending"
    /\ UNCHANGED <<emuVars, drvVars, child, child_next, queue, rx_alive, fedLog, failed,
                   timedOut>>

\* reader thread: read returns Ok(0) or an error other than Interrupted and
\* WouldBlock once the child has gone and nothing is left to read
ReaderEof ==
    /\ reader = "reading"
    /\ ptyOut = <<>>
    /\ child \in {"zombie", "reaped"}
    /\ reader' = "done"
    /\ UNCHANGED <<emuVars, drvVars, child, ptyOut, child_next, reader_chunk, queue,
                   rx_alive, histVars>>

\* reader thread: if tx.send(buffer[..size].to_vec()).is_err() { break; }
ReaderSend ==
    /\ reader = "sending"
    /\ IF rx_alive
       THEN /\ Len(queue) < MaxQueue
            /\ queue' = channel_send(queue, reader_chunk)
            /\ reader' = "reading"
       ELSE /\ queue' = queue
            /\ reader' = "done"
    /\ reader_chunk' = <<>>
    /\ UNCHANGED <<emuVars, drvVars, child, ptyOut, child_next, rx_alive, histVars>>

\* time passes: the phase maximum is reached
MaxWaitElapses ==
    /\ pc \in {"drain_check", "drain_recv", "exit_try_wait", "exit_deadline", "exit_recv"}
    /\ ~maxElapsed
    /\ maxElapsed' = TRUE
    /\ UNCHANGED <<emuVars, pc, ret, inputs, loop_i, captures, result, written,
                   flushed, envVars, histVars>>

DriverNext ==
    \/ OpenPty \/ SpawnCommand \/ CloneReader \/ TakeWriter \/ SpawnReader
    \/ DrainCheck \/ DrainRecv \/ FinalDrain
    \/ CaptureInitial \/ Sleep \/ WriteInput \/ FlushInput \/ CaptureInput
    \/ DropWriter \/ ExitTryWait \/ ExitDeadline \/ ExitRecv
    \/ FinalTryWait \/ KillChild \/ WaitChild

ReaderNext == ReaderRead \/ ReaderEof \/ ReaderSend

NextRun ==
    \/ DriverNext
    \/ ReaderNext
    \/ ChildEmit \/ ChildExit
    \/ MaxWaitElapses

SpecRun == InitRun /\ [][NextRun]_vars

\* the operating system schedules both threads, and time passes
SpecRunFair ==
    /\ InitRun /\ [][NextRun]_vars
    /\ WF_vars(DriverNext)
    /\ WF_vars(ReaderNext)
    /\ WF_vars(MaxWaitElapses)

-----------------------------------------------------------------------------
(* PtyBackend::capture (backend.rs), called with an empty input list *)

\* Ok(CaptureResult { image_data: png_bytes, width, height, .. })
capture_result(t) ==
    [image_data |-> render_to_png(t),
     width |-> t.width * CELL_WIDTH, height |-> t.height * CELL_HEIGHT]

\* the state when capture is entered: config.inputs is empty
InitCapture ==
    /\ size = <<RunCols, RunRows>>
    /\ terminal = Vt100Parser_new(size[1], size[2])
    /\ panicked = FALSE /\ nbytes = 0 /\ scrolled = FALSE
    /\ last_ev = EvNone /\ alt_hist = NoAltHist /\ print_log = Some(<<>>)
    /\ sgr_hist = 0
    /\ reset_run = 0
    /\ pc = "cap_openpty" /\ ret = "none" /\ inputs = <<>> /\ loop_i = 0
    /\ captures = <<>> /\ result = Pending /\ written = <<>> /\ flushed = 0
    /\ maxElapsed = FALSE
    /\ child = "none" /\ child_next \in OutBytes /\ ptyOut = <<>>
    /\ reader = "none" /\ reader_chunk = <<>>
    /\ queue = <<>> /\ rx_alive = FALSE
    /\ readLog = <<>> /\ fedLog = <<>> /\ failed = "none" /\ timedOut = FALSE

\* backend.rs drain_until_quiet(rx, parser, 180 ms): it has no maximum
cap_call_drain(r) ==
    /\ pc' = "cap_drain_recv"
    /\ ret' = r

CapOpenPty ==
    /\ pc = "cap_openpty"
    /\ \/ /\ pc' = "cap_spawn"
          /\ UNCHANGED <<result, rx_alive, failed>>
       \/ propagate("openpty")
    /\ UNCHANGED <<emuVars, ret, inputs, loop_i, captures, written, flushed,
                   maxElapsed, child, ptyOut, child_next, reader, reader_chunk,
                   queue, readLog, fedLog, timedOut>>

CapSpawnCommand ==
    /\ pc = "cap_spawn"
    /\ \/ /\ pc' = "cap_clone_reader"
          /\ child' = "running"
          /\ UNCHANGED <<result, rx_alive, failed>>
       \/ propagate("spawn_command") /\ UNCHANGED child
    /\ UNCHANGED <<emuVars, ret, inputs, loop_i, captures, written, flushed,
                   maxElapsed, ptyOut, child_next, reader, reader_chunk, queue,
                   readLog, fedLog, timedOut>>

CapCloneReader ==
    /\ pc = "cap_clone_reader"
    /\ \/ /\ pc' = "cap_take_writer"
          /\ UNCHANGED <<result, rx_alive, failed>>
       \/ propagate("try_clone_reader")
    /\ UNCHANGED <<emuVars, ret, inputs, loop_i, captures, written, flushed,
                   maxElapsed, child, ptyOut, child_next, reader, reader_chunk,
                   queue, readLog, fedLog, timedOut>>

CapTakeWriter ==
    /\ pc = "cap_take_writer"
    /\ \/ /\ pc' = "cap_spawn_reader"
          /\ UNCHANGED <<result, rx_alive, failed>>
       \/ propagate("take_writer")
    /\ UNCHANGED <<emuVars, ret, inputs, loop_i, captures, written, flushed,
                   maxElapsed, child, ptyOut, child_next, reader, reader_chunk,
                   queue, readLog, fedLog, timedOut>>

\* thread::spawn(reader loop), then the initial drain_until_quiet
CapSpawnReader ==
    /\ pc = "cap_spawn_reader"
    /\ reader' = "reading"
    /\ rx_alive' = TRUE
    /\ cap_call_drain("cap_settled")
    /\ UNCHANGED <<emuVars, inputs, loop_i, captures, result, written, flushed,
                   maxElapsed, child, ptyOut, child_next, reader_chunk, queue,
                   histVars>>

\* drain_until_quiet: match rx.recv_timeout(50 ms)
CapDrainRecv ==
    /\ pc = "cap_drain_recv"
    /\ \/ \* Ok(chunk): process every byte, last_activity = now
          /\ queue # <<>>
          /\ ingest_front
          /\ pc' = pc
       \/ \* Err(Timeout), last_activity.elapsed() < quiet_window
          /\ queue = <<>> /\ reader # "done"
          /\ pc' = pc
          /\ UNCHANGED <<queue, fedLog, terminal, panicked>>
       \/ \* Err(Timeout), last_activity.elapsed() >= quiet_window: break
          /\ queue = <<>> /\ reader # "done"
          /\ pc' = "cap_final_drain"
          /\ UNCHANGED <<queue, fedLog, terminal, panicked>>
       \/ \* Err(Disconnected): break
          /\ queue = <<>> /\ reader = "done"
          /\ pc' = "cap_final_drain"
          /\ UNCHANGED <<queue, fedLog, terminal, panicked>>
    /\ UNCHANGED <<size, nbytes, scrolled, last_ev, alt_hist, print_log, sgr_hist,
                   reset_run, ret, inputs,
                   loop_i, captures, result, written, flushed, maxElapsed, child,
                   ptyOut, child_next, reader, reader_chunk, rx_alive, readLog,
                   failed, timedOut>>

\* drain_until_quiet: while let Ok(chunk) = rx.try_recv() { process every byte }
CapFinalDrain ==
    /\ pc = "cap_final_drain"
    /\ IF queue # <<>>
       THEN ingest_front /\ pc' = pc
       ELSE pc' = ret /\ UNCHANGED <<queue, fedLog, terminal, panicked>>
    /\ UNCHANGED <<size, nbytes, scrolled, last_ev, alt_hist, print_log, sgr_hist,
                   reset_run, ret, inputs,
                   loop_i, captures, result, written, flushed, maxElapsed, child,
                   ptyOut, child_next, reader, reader_chunk, rx_alive, readLog,
                   failed, timedOut>>

\* the initial drain has returned and the input loop has nothing to send: the
\* screen is now the one capture 0 of run_with_inputs_sized holds, which
\* captures records; capture goes on to its final drain_until_quiet
CapSettled ==
    /\ pc = "cap_settled"
    /\ captures' = <<initial_capture(terminal)>>
    /\ cap_call_drain("cap_drop_writer")
    /\ UNCHANGED <<emuVars, inputs, loop_i, result, written, flushed,
                   maxElapsed, envVars, histVars>>

\* drop(writer); let start = Instant::now(); let max_wait = 3 s
CapDropWriter ==
    /\ pc = "cap_drop_writer"
    /\ pc' = "cap_deadline"
    /\ maxElapsed' = FALSE
    /\ UNCHANGED <<emuVars, ret, inputs, loop_i, captures, result, written, flushed,
                   envVars, histVars>>

\* while start.elapsed() < max_wait
CapDeadline ==
    /\ pc = "cap_deadline"
    /\ IF maxElapsed
       THEN pc' = "cap_final_try_wait" /\ maxElapsed' = FALSE
       ELSE pc' = "cap_try_wait" /\ maxElapsed' = maxElapsed
    /\ UNCHANGED <<emuVars, ret, inputs, loop_i, captures, result, written, flushed,
                   envVars, histVars>>

\* if let Ok(Some(_)) = child.try_wait() { drain_until_quiet; break; }
CapTryWait ==
    /\ pc = "cap_try_wait"
    /\ \/ \* Ok(Some(_))
          /\ child # "running"
          /\ child' = "reaped"
          /\ cap_call_drain("cap_final_try_wait")
       \/ \* Ok(None)
          /\ child = "running"
          /\ pc' = "cap_recv"
          /\ UNCHANGED <<child, ret>>
       \/ \* Err(_)
          /\ pc' = "cap_recv"
          /\ UNCHANGED <<child, ret>>
    /\ UNCHANGED <<emuVars, inputs, loop_i, captures, result, written, flushed,
                   maxElapsed, ptyOut, child_next, reader, reader_chunk, queue,
                   rx_alive, histVars>>

\* if let Ok(chunk) = rx.recv_timeout(60 ms) { process every byte }
CapRecv ==
    /\ pc = "cap_recv"
    /\ \/ \* Ok(chunk)
          /\ queue # <<>>
          /\ ingest_front
       \/ \* Err(Timeout) and Err(Disconnected): the loop goes on
          /\ queue = <<>>
          /\ UNCHANGED <<queue, fedLog, terminal, panicked>>
    /\ pc' = "cap_deadline"
    /\ UNCHANGED <<size, nbytes, scrolled, last_ev, alt_hist, print_log, sgr_hist,
                   reset_run, ret, inputs,
                   loop_i, captures, result, written, flushed, maxElapsed, child,
                   ptyOut, child_next, reader, reader_chunk, rx_alive, readLog,
                   failed, timedOut>>

\* if child.try_wait().ok().flatten().is_none() { kill; wait }
CapFinalTryWait ==
    /\ pc = "cap_final_try_wait"
    /\ \/ \* Ok(None), or Err(_) flattened to None
          /\ pc' = "cap_kill"
          /\ UNCHANGED child
       \/ \* Ok(Some(_))
          /\ child # "running"
          /\ child' = "reaped"
          /\ pc' = "cap_render"
    /\ UNCHANGED <<emuVars, ret, inputs, loop_i, captures, result, written, flushed,
                   maxElapsed, ptyOut, child_next, reader, reader_chunk, queue,
                   rx_alive, histVars>>

\* let _ = child.kill();
CapKillChild ==
    /\ pc = "cap_kill"
    /\ child' = IF child = "running" THEN "zombie" ELSE child
    /\ pc' = "cap_wait"
    /\ UNCHANGED <<emuVars, ret, inputs, loop_i, captures, result, written, flushed,
                   maxElapsed, ptyOut, child_next, reader, reader_chunk, queue,
                   rx_alive, histVars>>

\* let _ = child.wait();
CapWaitChild ==
    /\ pc = "cap_wait"
    /\ child # "running"
    /\ child' = "reaped"
    /\ pc' = "cap_render"
    /\ UNCHANGED <<emuVars, ret, inputs, loop_i, captures, result, written, flushed,
                   maxElapsed, ptyOut, child_next, reader, reader_chunk, queue,
                   rx_alive, histVars>>

\* render_to_image, img.write_to(.., Png)?, Ok(CaptureResult { .. })
CapRender ==
    /\ pc = "cap_render"
    /\ \/ return_with(Ok(<<capture_result(terminal)>>)) /\ UNCHANGED failed
       \/ propagate("encode_png")
    /\ UNCHANGED <<emuVars, ret, inputs, loop_i, captures, written, flushed,
                   maxElapsed, child, ptyOut, child_next, reader, reader_chunk,
                   queue, readLog, fedLog, timedOut>>

\* time passes: max_wait is reached in the wait for the child
CapMaxWaitElapses ==
    /\ pc \in {"cap_deadline", "cap_try_wait", "cap_recv"}
    /\ ~maxElapsed
    /\ maxElapsed' = TRUE
    /\ UNCHANGED <<emuVars, pc, ret, inputs, loop_i, captures, result, written,
                   flushed, envVars, histVars>>

CaptureNext ==
    \/ CapOpenPty \/ CapSpawnCommand \/ CapCloneReader \/ CapTakeWriter
    \/ CapSpawnReader \/ CapDrainRecv \/ CapFinalDrain \/ CapSettled
    \/ CapDropWriter \/ CapDeadline \/ CapTryWait \/ CapRecv
    \/ CapFinalTryWait \/ CapKillChild \/ CapWaitChild \/ CapRender

NextCapture ==
    \/ CaptureNext
    \/ ReaderNext
    \/ ChildEmit \/ ChildExit
    \/ CapMaxWaitElapses

SpecCapture == InitCapture /\ [][NextCapture]_vars

\* the operating system schedules both threads, and time passes
SpecCaptureFair ==
    /\ InitCapture /\ [][NextCapture]_vars
    /\ WF_vars(CaptureNext)
    /\ WF_vars(ReaderNext)
    /\ WF_vars(CapMaxWaitElapses)

-----------------------------------------------------------------------------
(* run_harness (harness/cli.rs): inputs holds config.states, captures the    *)
(* results vector, loop_i the number of states the for loop has gone through *)

MaxStates == 3
TicksPerSecond == 2
MaxCaptureTicks == 2

\* the input lists a StateConfig can carry
StateInputs == {<<>>, <<"down">>, <<"enter">>, <<"down", "enter">>}

StateConfigs == [inputs : StateInputs, capture_snapshot : BOOLEAN]

\* generate_timestamp: Utc::now().format("%Y%m%d_%H%M%S"), the clock cut to
\* whole seconds; the clock counts ticks, TicksPerSecond to the second
generate_timestamp(now) == now \div TicksPerSecond

\* generate_filename: format!("{}_{}.png", prefix, timestamp)
generate_filename(prefix, timestamp) == <<prefix, timestamp, "png">>

\* the clock readings a capture can start at: after the previous capture,
\* which took at least one tick
clock_readings ==
    IF captures = <<>> THEN 0..(MaxCaptureTicks - 1)
    ELSE LET last == captures[Len(captures)].now
         IN  (last + 1)..(last + MaxCaptureTicks)

\* capture_cli_screenshot_pty(config, binary, args, &state_config.inputs): a
\* new child is spawned, it is sent the inputs passed in, in order, and the
\* image is saved at output_dir/cli_screenshot_<timestamp>.png
snapshot_of(k, now) ==
    [state |-> k,
     received |-> inputs[k].inputs,
     now |-> now,
     image_path |-> generate_filename("cli_screenshot", generate_timestamp(now))]

InitHarness ==
    /\ size = <<1, 1>>
    /\ terminal = Vt100Parser_new(size[1], size[2])
    /\ panicked = FALSE /\ nbytes = 0 /\ scrolled = FALSE
    /\ last_ev = EvNone /\ alt_hist = NoAltHist /\ print_log = Some(<<>>)
    /\ sgr_hist = 0
    /\ reset_run = 0
    /\ pc = "harness" /\ ret = "none" /\ loop_i = 0
    /\ inputs \in UNION {[1..n -> StateConfigs] : n \in 0..MaxStates}
    /\ captures = <<>> /\ result = Pending /\ written = <<>> /\ flushed = 0
    /\ maxElapsed = FALSE
    /\ child = "none" /\ child_next = 65 /\ ptyOut = <<>>
    /\ reader = "none" /\ reader_chunk = <<>>
    /\ queue = <<>> /\ rx_alive = FALSE
    /\ readLog = <<>> /\ fedLog = <<>> /\ failed = "none" /\ timedOut = FALSE

\* for state_config in &config.states: if state_config.capture_snapshot {
\*   let snapshot = capture_cli_snapshot_pty(.., &state_config.inputs, ..)?;
\*   results.push((name, snapshot)) }
HarnessCaptureState ==
    /\ pc = "harness"
    /\ loop_i < Len(inputs)
    /\ inputs[loop_i + 1].capture_snapshot
    /\ \/ /\ \E now \in clock_readings :
                captures' = Append(captures, snapshot_of(loop_i + 1, now))
          /\ loop_i' = loop_i + 1
          /\ UNCHANGED <<pc, result, rx_alive, failed>>
       \/ /\ propagate("capture_cli_snapshot_pty")
          /\ UNCHANGED <<captures, loop_i>>
    /\ UNCHANGED <<emuVars, ret, inputs, written, flushed, maxElapsed, child,
                   child_next, ptyOut, reader, reader_chunk, queue, readLog,
                   fedLog, timedOut>>

\* a state whose capture_snapshot is false: the loop body does nothing
HarnessSkipState ==
    /\ pc = "harness"
    /\ loop_i < Len(inputs)
    /\ ~inputs[loop_i + 1].capture_snapshot
    /\ loop_i' = loop_i + 1
    /\ UNCHANGED <<emuVars, pc, ret, inputs, captures, result, written, flushed,
                   maxElapsed, envVars, histVars>>

\* Ok(results)
HarnessReturn ==
    /\ pc = "harness"
    /\ loop_i = Len(inputs)
    /\ return_with(Ok(captures))
    /\ UNCHANGED <<emuVars, ret, inputs, loop_i, captures, written, flushed,
                   maxElapsed, child, child_next, ptyOut, reader, reader_chunk,
                   queue, histVars>>

NextHarness == HarnessCaptureState \/ HarnessSkipState \/ HarnessReturn

SpecHarness == InitHarness /\ [][NextHarness]_vars

-----------------------------------------------------------------------------
(* Properties of the emulator *)

cursor_in_grid(t, x, y) == 0 <= x /\ x < t.width /\ 0 <= y /\ y < t.height

\* C1: after every byte fed to a fresh emulator of any size, the live cursor
\* satisfies 0 <= col < cols and 0 <= row < rows, and the saved cursor is empty
\* or in that range.
C1_CursorInRange ==
    ~panicked =>
        /\ cursor_in_grid(terminal, terminal.cursor_x, terminal.cursor_y)
        /\ is_some(terminal.saved_cursor) =>
               cursor_in_grid(terminal, unwrap(terminal.saved_cursor)[1],
                              unwrap(terminal.saved_cursor)[2])

is_grid(rows, cols, nrows) ==
    Len(rows) = nrows /\ \A y \in 1..Len(rows) : Len(rows[y]) = cols

\* C2: the four cell buffers always hold exactly rows rows of exactly cols
\* cells, across scrolls, clears and alternate-screen enter and leave, and
\* width and height stay the constructor's cols and rows.
C2_GridShape ==
    /\ terminal.width = size[1]
    /\ terminal.height = size[2]
    /\ is_grid(terminal.buffer, size[1], size[2])
    /\ is_grid(terminal.fg_colors, size[1], size[2])
    /\ is_grid(terminal.bg_colors, size[1], size[2])
    /\ is_grid(terminal.attributes, size[1], size[2])

\* a grid of at least two rows that has scrolled, inside the alternate screen
C2_Witness ==
    /\ scrolled
    /\ terminal.in_alternate_screen
    /\ size[1] >= 1 /\ size[2] >= 2

\* C3: process_byte never panics, for every emulator size (zero columns or zero
\* rows included) and every byte.
C3_NeverPanics == ~panicked

\* a process_byte call has returned without panicking
fed_ok == nbytes' = nbytes + 1 /\ ~panicked'

\* DEC private mode set and reset of the alternate-screen modes
is_csi(ev, action) == ev.kind = "csi" /\ ev.c = action
is_alt_mode(ev, action) ==
    /\ is_csi(ev, action)
    /\ ev.intermediates = <<"?">>
    /\ ev.params \in {P(<<47>>), P(<<1047>>), P(<<1049>>)}
is_enter_alt(ev) == is_alt_mode(ev, "h")
is_leave_alt(ev) == is_alt_mode(ev, "l")

has_text(rows) == \E y \in 1..Len(rows) : \E x \in 1..Len(rows[y]) : rows[y][x] # " "

\* C11: entering the alternate screen (mode 47, 1047 or 1049) from outside it
\* and later leaving it restores every cell (character, colours, attributes)
\* and the cursor exactly as they were before the enter, whatever was written
\* in between.
C11_AltScreenRestores ==
    [][fed_ok =>
          /\ is_enter_alt(last_ev') => terminal'.in_alternate_screen
          /\ is_leave_alt(last_ev') => ~terminal'.in_alternate_screen
          /\ terminal.in_alternate_screen /\ ~terminal'.in_alternate_screen =>
                 /\ is_leave_alt(last_ev')
                 /\ is_some(alt_hist.saved)
                 /\ screen_of(terminal') = unwrap(alt_hist.saved)]_vars

\* the alternate screen has just been left, after a character was printed
\* inside it, and the restored screen holds text and a moved cursor
C11_Witness ==
    /\ is_leave_alt(last_ev)
    /\ ~terminal.in_alternate_screen
    /\ is_some(alt_hist.saved)
    /\ alt_hist.printed
    /\ has_text(terminal.buffer)
    /\ terminal.cursor_x > 0

\* C12: entering the alternate screen while already in it changes nothing (no
\* clear, the saved primary screen is kept), and leaving it while not in it
\* changes nothing.
C12_AltScreenNoNesting ==
    [][fed_ok =>
          /\ is_enter_alt(last_ev') /\ terminal.in_alternate_screen =>
                 terminal' = terminal
          /\ is_leave_alt(last_ev') /\ ~terminal.in_alternate_screen =>
                 terminal' = terminal]_vars

\* a second enter inside the alternate screen, with text on both screens
C12_Witness ==
    /\ is_enter_alt(last_ev)
    /\ terminal.in_alternate_screen
    /\ alt_hist.printed
    /\ has_text(terminal.buffer)
    /\ is_some(terminal.alternate_screen)
    /\ has_text(unwrap(terminal.alternate_screen).buffer)

\* a process_byte call has been made (it may have panicked)
fed == nbytes' = nbytes + 1

\* the callbacks that reach write_char, and the character they pass to it
is_write(ev) == ev.kind = "print" \/ (ev.kind = "execute" /\ ev.c \in {10, 13, 9})
written_char(ev) == IF ev.kind = "print" THEN ev.c ELSE execute_char(ev.c)

blank_row(cols, v) == [x \in 1..cols |-> v]

\* grid g2 is grid g1 scrolled by one row, the new bottom row holding v
scrolled_by_one(g1, g2, cols, v) ==
    /\ Len(g1) >= 1
    /\ Len(g2) = Len(g1)
    /\ \A y \in 1..(Len(g1) - 1) : g2[y] = g1[y + 1]
    /\ g2[Len(g2)] = blank_row(cols, v)

\* C13: the grid scrolls exactly when a write, wrap or line feed advances the
\* cursor past the last row; a scroll drops row 0, moves every other row up
\* unchanged, appends a row of spaces, white on black with cleared attributes
\* whatever the pen is, and leaves the cursor on the last row.
C13_ScrollOnAdvance ==
    [][fed /\ is_write(last_ev') =>
          LET b == write_char_wrapped(terminal, written_char(last_ev'))
              advanced == b.cursor_y > terminal.cursor_y /\ b.cursor_y >= size[2]
          IN  IF advanced
              THEN /\ ~panicked'
                   /\ scrolled_by_one(b.buffer, terminal'.buffer, size[1], " ")
                   /\ scrolled_by_one(b.fg_colors, terminal'.fg_colors, size[1], WHITE)
                   /\ scrolled_by_one(b.bg_colors, terminal'.bg_colors, size[1], BLACK)
                   /\ scrolled_by_one(b.attributes, terminal'.attributes, size[1],
                                      CellAttributes_default)
                   /\ terminal'.cursor_y = size[2] - 1
                   /\ terminal'.cursor_x = b.cursor_x
              ELSE /\ ~panicked'
                   /\ terminal' = b]_vars

\* only characters have been printed into the fresh grid, N of them
only_prints(N) == is_some(print_log) /\ Len(unwrap(print_log)) = N

\* C14: writing N printable characters and no control bytes into a fresh
\* cols x rows grid, for every rows >= 1 and every N <= cols, places them in
\* row 0 at columns 0..N-1 and leaves the cursor at (N, 0) if N < cols or at
\* (0, 1) if N = cols.
C14_FirstRowFill ==
    \A N \in 1..size[1] :
        only_prints(N) /\ size[2] >= 1 =>
            /\ ~panicked
            /\ \A k \in 1..N : terminal.buffer[1][k] = unwrap(print_log)[k]
            /\ IF N < size[1]
               THEN terminal.cursor_x = N /\ terminal.cursor_y = 0
               ELSE terminal.cursor_x = 0 /\ terminal.cursor_y = 1

\* C15: writing N > cols x rows printable characters into a fresh grid leaves
\* the final character written in the last row of the grid, for every such N,
\* multiples of cols included.
C15_LastCharInLastRow ==
    \A N \in 1..MaxBytes :
        only_prints(N) /\ size[1] >= 1 /\ size[2] >= 1 /\ N > size[1] * size[2] =>
            /\ ~panicked
            /\ terminal.buffer[size[2]][((N - 1) % size[1]) + 1] = unwrap(print_log)[N]

\* the control bytes of Perform::execute
is_execute(ev, byte) == ev.kind = "execute" /\ ev.c = byte

\* C16: LF (0x0A) advances the cursor row by one, scrolling when the cursor
\* is on the last row, and leaves the cursor column unchanged.
C16_LineFeedKeepsColumn ==
    [][fed_ok /\ is_execute(last_ev', 10) /\ size[1] >= 1 /\ size[2] >= 1 =>
          /\ terminal'.cursor_x = terminal.cursor_x
          /\ IF terminal.cursor_y + 1 < size[2]
             THEN /\ terminal'.cursor_y = terminal.cursor_y + 1
                  /\ terminal'.buffer = terminal.buffer
             ELSE /\ terminal'.cursor_y = size[2] - 1
                  /\ scrolled_by_one(terminal.buffer, terminal'.buffer, size[1], " ")]_vars

\* the next multiple of 8 above column c
next_tab_stop(c) == ((c \div 8) + 1) * 8

\* C17: HT (0x09) at cursor column c moves the cursor column to the next
\* multiple of 8 above c, for every cursor position and every grid width; it
\* changes no cell and does not change the cursor row.
C17_TabNextMultipleOf8 ==
    [][fed_ok /\ is_execute(last_ev', 9) /\ size[1] >= 1 /\ size[2] >= 1 =>
          /\ terminal'.cursor_x = next_tab_stop(terminal.cursor_x)
          /\ terminal'.cursor_y = terminal.cursor_y
          /\ screen_of(terminal').buffer = screen_of(terminal).buffer
          /\ screen_of(terminal').fg_colors = screen_of(terminal).fg_colors
          /\ screen_of(terminal').bg_colors = screen_of(terminal).bg_colors
          /\ screen_of(terminal').attributes = screen_of(terminal).attributes]_vars

\* parameter i (from 0) of a CSI sequence, an absent or 0 parameter counting
\* as 1
count_param(ev, i) ==
    IF Len(ev.params) > i /\ ev.params[i + 1][1] # 0 THEN ev.params[i + 1][1] ELSE 1

\* C18: CSI H and f with parameters (row, col) move the cursor to
\* (min(col-1, cols-1), min(row-1, rows-1)); CSI A, B, C, D move the cursor up,
\* down, right, left by n clamped to the grid; an absent or 0 parameter counts
\* as 1.
C18_CursorMoves ==
    [][fed_ok =>
          LET n == count_param(last_ev', 0)
              x == terminal.cursor_x
              y == terminal.cursor_y
              x2 == terminal'.cursor_x
              y2 == terminal'.cursor_y
          IN  /\ is_csi(last_ev', "H") \/ is_csi(last_ev', "f") =>
                     /\ x2 = Min(count_param(last_ev', 1) - 1, size[1] - 1)
                     /\ y2 = Min(n - 1, size[2] - 1)
              /\ is_csi(last_ev', "A") => x2 = x /\ y2 = clamp(y - n, 0, size[2] - 1)
              /\ is_csi(last_ev', "B") => x2 = x /\ y2 = clamp(y + n, 0, size[2] - 1)
              /\ is_csi(last_ev', "C") => y2 = y /\ x2 = clamp(x + n, 0, size[1] - 1)
              /\ is_csi(last_ev', "D") => y2 = y /\ x2 = clamp(x - n, 0, size[1] - 1)]_vars

\* the mode of a CSI J sequence, if ev is one (0 when the parameter is absent),
\* and -1 otherwise
erase_mode(ev) ==
    IF ~is_csi(ev, "J") THEN -1
    ELSE IF Len(ev.params) = 0 THEN 0 ELSE ev.params[1][1]

\* the grid positions <<y, x>>, and those from the cursor of t (inclusive) to
\* the end of the screen and to the end of the cursor line
all_cells == {<<y, x>> : y \in 0..(size[2] - 1), x \in 0..(size[1] - 1)}
to_end_of_screen(t) ==
    {c \in all_cells : c[1] > t.cursor_y \/ (c[1] = t.cursor_y /\ c[2] >= t.cursor_x)}
to_end_of_line(t) ==
    {c \in all_cells : c[1] = t.cursor_y /\ c[2] >= t.cursor_x}

\* the cells a callback erases according to the erase table
erased_cells(t, ev) ==
    IF erase_mode(ev) = 0 THEN to_end_of_screen(t)
    ELSE IF erase_mode(ev) \in {2, 3} THEN all_cells
    ELSE IF is_csi(ev, "K") THEN to_end_of_line(t)
    ELSE {}

\* C19: every erase operation (CSI J modes 0, 2 and 3, and CSI K) leaves each
\* erased cell as a space whose background is the background of the pen at
\* the time of the erase and whose attributes are cleared.
C19_ErasedCellsTakePenBackground ==
    [][fed_ok =>
          \A c \in erased_cells(terminal, last_ev') :
              /\ terminal'.buffer[c[1] + 1][c[2] + 1] = " "
              /\ terminal'.bg_colors[c[1] + 1][c[2] + 1] = terminal.current_bg
              /\ terminal'.attributes[c[1] + 1][c[2] + 1] = CellAttributes_default]_vars

\* cell c of t is blank: a space with cleared attributes
is_blank(t, c) ==
    /\ t.buffer[c[1] + 1][c[2] + 1] = " "
    /\ t.attributes[c[1] + 1][c[2] + 1] = CellAttributes_default

\* cell c is the same in t1 and t2
same_cell(t1, t2, c) ==
    /\ t2.buffer[c[1] + 1][c[2] + 1] = t1.buffer[c[1] + 1][c[2] + 1]
    /\ t2.fg_colors[c[1] + 1][c[2] + 1] = t1.fg_colors[c[1] + 1][c[2] + 1]
    /\ t2.bg_colors[c[1] + 1][c[2] + 1] = t1.bg_colors[c[1] + 1][c[2] + 1]
    /\ t2.attributes[c[1] + 1][c[2] + 1] = t1.attributes[c[1] + 1][c[2] + 1]

\* C20: CSI J mode 0 erases exactly the cells from the cursor (inclusive) to
\* the end of the screen and CSI K exactly the cells from the cursor
\* (inclusive) to the end of the current line, both leaving every other cell
\* and the cursor position unchanged; CSI J mode 1 changes nothing at all;
\* CSI J modes 2 and 3 erase every cell and home the cursor.
C20_EraseExtent ==
    [][fed =>
          /\ erase_mode(last_ev') \in {0, 1, 2, 3} \/ is_csi(last_ev', "K") => ~panicked'
          /\ erase_mode(last_ev') = 0 \/ is_csi(last_ev', "K") =>
                 /\ \A c \in erased_cells(terminal, last_ev') : is_blank(terminal', c)
                 /\ \A c \in all_cells \ erased_cells(terminal, last_ev') :
                        same_cell(terminal, terminal', c)
                 /\ terminal'.cursor_x = terminal.cursor_x
                 /\ terminal'.cursor_y = terminal.cursor_y
          /\ erase_mode(last_ev') = 1 => terminal' = terminal
          /\ erase_mode(last_ev') \in {2, 3} =>
                 /\ \A c \in all_cells : is_blank(terminal', c)
                 /\ terminal'.cursor_x = 0
                 /\ terminal'.cursor_y = 0]_vars

\* CSI J mode 0 has just erased from a cursor that is not at the start of its
\* row, and the cell before the cursor still holds its character
C20_Witness ==
    /\ erase_mode(last_ev) = 0
    /\ ~panicked
    /\ terminal.cursor_x > 0
    /\ terminal.cursor_y < size[2]
    /\ terminal.buffer[terminal.cursor_y + 1][terminal.cursor_x] # " "

\* the pen of a terminal
pen_of(t) == [fg |-> t.current_fg, bg |-> t.current_bg, attrs |-> t.current_attrs]

\* cell c of t2 holds character ch drawn with the pen of t1
cell_written(t1, t2, c, ch) ==
    /\ t2.buffer[c[1] + 1][c[2] + 1] = ch
    /\ t2.fg_colors[c[1] + 1][c[2] + 1] = t1.current_fg
    /\ t2.bg_colors[c[1] + 1][c[2] + 1] = t1.current_bg
    /\ t2.attributes[c[1] + 1][c[2] + 1] = t1.current_attrs

\* C21: writing a printable character that causes no scroll sets the cell
\* under the cursor before the write to the written character with the
\* foreground, background and attributes of the current pen, and changes no
\* other cell and not the pen.
C21_PrintWritesOneCell ==
    [][fed_ok /\ last_ev'.kind = "print" /\ ~write_char_scrolls(terminal, last_ev'.c) =>
          /\ \A c \in all_cells :
                 IF c = <<terminal.cursor_y, terminal.cursor_x>>
                 THEN cell_written(terminal, terminal', c, last_ev'.c)
                 ELSE same_cell(terminal, terminal', c)
          /\ pen_of(terminal') = pen_of(terminal)]_vars

\* a character has just been printed with a pen that is not the default one,
\* without scrolling, next to a cell that holds a character
C21_Witness ==
    /\ last_ev.kind = "print"
    /\ ~panicked
    /\ ~scrolled
    /\ size[1] >= 2
    /\ terminal.cursor_x = 0
    /\ terminal.cursor_y = 1
    /\ terminal.buffer[1] = <<"A", "B">>
    /\ terminal.bg_colors[1][2] # BLACK
    /\ terminal.bg_colors[1][1] = BLACK

\* C22: for every pen state and every SGR parameter list S, SGR 0 followed by
\* the SGR sequence S leaves the pen (foreground, background, bold, underline,
\* inverse) equal to the result of applying S to a default pen.
C22_ResetThenSgr ==
    [][fed_ok /\ is_sgr_0(last_ev) /\ is_sgr(last_ev') =>
          pen_of(terminal') =
              pen_of(handle_sgr(Vt100Terminal_new(size[1], size[2]), last_ev'.params))]_vars

\* S has just been applied after an SGR 0 that reset a pen which was not the
\* default one, and S has set a colour and an attribute
C22_Witness ==
    /\ sgr_hist = 2
    /\ ~panicked
    /\ terminal.current_fg # terminal.default_fg
    /\ terminal.current_attrs.bold

\* the recognised parameters of a list, applied in order
apply_all(t, params) == sgr_loop(t, flatten(params), 0)

\* C23: in an SGR parameter list a value the emulator does not recognise is
\* skipped and every later parameter of the list is still applied, also when
\* the unrecognised value is a 38 or 48 followed by an unknown mode or by
\* fewer subparameters than its mode needs.
C23_UnknownSgrSkipped ==
    [][fed_ok /\ is_sgr(last_ev') =>
          \A u \in SgrUnknown : \A l \in SgrTails :
              last_ev'.params = u \o l =>
                  pen_of(terminal') = pen_of(apply_all(terminal, l))]_vars

\* the xterm palette as the palette paragraph of the specification gives it
StandardColours ==
    << <<0, 0, 0>>, <<205, 49, 49>>, <<13, 188, 121>>, <<229, 229, 16>>,
       <<36, 114, 200>>, <<188, 63, 188>>, <<17, 168, 205>>, <<229, 229, 229>> >>
BrightColours ==
    << <<102, 102, 102>>, <<241, 76, 76>>, <<35, 209, 139>>, <<245, 245, 67>>,
       <<59, 142, 234>>, <<214, 112, 214>>, <<41, 184, 219>>, <<255, 255, 255>> >>
CubeLevels == <<0, 95, 135, 175, 215, 255>>
palette(N) ==
    IF N \in 0..7 THEN StandardColours[N + 1]
    ELSE IF N \in 8..15 THEN BrightColours[N - 7]
    ELSE IF N \in 16..231
    THEN LET k == N - 16
         IN  <<CubeLevels[(k \div 36) + 1], CubeLevels[((k \div 6) % 6) + 1],
               CubeLevels[(k % 6) + 1]>>
    ELSE <<8 + 10 * (N - 232), 8 + 10 * (N - 232), 8 + 10 * (N - 232)>>

\* C24: for every N in 0..255, SGR 38;5;N sets the foreground of the pen and
\* SGR 48;5;N its background to the xterm palette value of N (standard
\* colours, bright colours, 6x6x6 cube in R, G, B order, grey ramp), and the
\* computation does not overflow 8 bits.
C24_PaletteValues ==
    [][fed_ok /\ is_sgr(last_ev') /\ Len(last_ev'.params) = 3 =>
          LET N == last_ev'.params[3][1]
          IN  /\ N \in 0..255 /\ last_ev'.params = P(<<38, 5, N>>) =>
                     /\ terminal'.current_fg = palette(N)
                     /\ terminal'.current_bg = terminal.current_bg
                     /\ ~xterm_256_overflows(N)
              /\ N \in 0..255 /\ last_ev'.params = P(<<48, 5, N>>) =>
                     /\ terminal'.current_bg = palette(N)
                     /\ terminal'.current_fg = terminal.current_fg
                     /\ ~xterm_256_overflows(N)]_vars

\* SGR 38;5;110 has just set the foreground to the cube entry (2, 3, 4)
C24_Witness ==
    /\ is_sgr(last_ev)
    /\ last_ev.params = P(<<38, 5, 110>>)
    /\ ~panicked
    /\ terminal.current_fg = <<135, 175, 215>>

\* the grid of t is the grid of a freshly constructed emulator of the same size
fresh_grid(t) ==
    LET f == Vt100Terminal_new(size[1], size[2])
    IN  /\ t.buffer = f.buffer
        /\ t.fg_colors = f.fg_colors
        /\ t.bg_colors = f.bg_colors
        /\ t.attributes = f.attributes

\* C25: from any reachable state, ESC c fed twice yields a grid identical to
\* that of a freshly constructed emulator of the same size, with the cursor
\* at (0, 0) and a default pen, and the same state as ESC c fed once.
C25_DoubleReset ==
    [][fed /\ is_reset(last_ev) /\ ~panicked /\ is_reset(last_ev') =>
          /\ ~panicked'
          /\ fresh_grid(terminal')
          /\ terminal'.cursor_x = 0 /\ terminal'.cursor_y = 0
          /\ is_default_pen(terminal')
          /\ terminal' = terminal]_vars

\* ESC c has been fed twice in a row, the first time on a screen with text
C25_Witness ==
    /\ reset_run = 2
    /\ is_reset(last_ev)
    /\ ~panicked
    /\ ~has_text(terminal.buffer)

\* the final bytes of the CSI table, and the CSI sequences outside it: another
\* final byte, h or l without the ? prefix, and private set or reset of a mode
\* other than 47, 1047 and 1049
SupportedFinals == {"H", "f", "A", "B", "C", "D", "J", "K", "m", "s", "u", "h", "l"}
is_ignored_csi(ev) ==
    /\ ev.kind = "csi"
    /\ \/ ev.c \notin SupportedFinals
       \/ /\ ev.c \in {"h", "l"}
          /\ \/ ev.intermediates # <<"?">>
             \/ ev.params \notin {P(<<47>>), P(<<1047>>), P(<<1049>>)}

\* C26: CSI sequences with an unsupported final byte, DEC private set and
\* reset of modes other than 47, 1047 and 1049, and h and l without the ?
\* prefix leave the whole emulator state unchanged: grid, cursor, pen, saved
\* cursor and alternate-screen state.
C26_IgnoredCsi ==
    [][fed /\ is_ignored_csi(last_ev') => ~panicked' /\ terminal' = terminal]_vars

\* h without the ? prefix has just been fed to an emulator that holds text and
\* a pen that is not the default one
C26_Witness ==
    /\ is_csi(last_ev, "h")
    /\ last_ev.intermediates = <<>>
    /\ ~panicked
    /\ ~terminal.in_alternate_screen
    /\ has_text(terminal.buffer)
    /\ ~is_default_pen(terminal)

\* two names are the same up to the case of their ASCII letters
same_letter(a, b) ==
    \/ a = b
    \/ a \in 65..90 /\ b = a + 32
    \/ a \in 97..122 /\ b = a - 32
same_name(s, name) ==
    Len(s) = Len(name) /\ \A k \in 1..Len(s) : same_letter(s[k], name[k])

\* the key table of the input-translation section: name and bytes
TableOfKeys ==
    {
      <<Str(<<"u", "p">>),
        <<27, 91, 65>>>>,
      <<Str(<<"d", "o", "w", "n">>),
        <<27, 91, 66>>>>,
      <<Str(<<"r", "i", "g", "h", "t">>),
        <<27, 91, 67>>>>,
      <<Str(<<"l", "e", "f", "t">>),
        <<27, 91, 68>>>>,
      <<Str(<<"h", "o", "m", "e">>),
        <<27, 91, 72>>>>,
      <<Str(<<"e", "n", "d">>),
        <<27, 91, 70>>>>,
      <<Str(<<"p", "a", "g", "e", "u", "p">>),
        <<27, 91, 53, 126>>>>,
      <<Str(<<"p", "a", "g", "e", "d", "o", "w", "n">>),
        <<27, 91, 54, 126>>>>,
      <<Str(<<"i", "n", "s", "e", "r", "t">>),
        <<27, 91, 50, 126>>>>,
      <<Str(<<"d", "e", "l", "e", "t", "e">>),
        <<27, 91, 51, 126>>>>,
      <<Str(<<"e", "n", "t", "e", "r">>),
        <<13>>>>,
      <<Str(<<"r", "e", "t", "u", "r", "n">>),
        <<13>>>>,
      <<Str(<<"s", "p", "a", "c", "e">>),
        <<32>>>>,
      <<Str(<<"t", "a", "b">>),
        <<9>>>>,
      <<Str(<<"b", "a", "c", "k", "s", "p", "a", "c", "e">>),
        <<127>>>>,
      <<Str(<<"e", "s", "c", "a", "p", "e">>),
        <<27>>>>,
      <<Str(<<"e", "s", "c">>),
        <<27>>>>,
      <<Str(<<"f", "1">>),
        <<27, 79, 80>>>>,
      <<Str(<<"f", "2">>),
        <<27, 79, 81>>>>,
      <<Str(<<"f", "3">>),
        <<27, 79, 82>>>>,
      <<Str(<<"f", "4">>),
        <<27, 79, 83>>>>,
      <<Str(<<"f", "5">>),
        <<27, 91, 49, 53, 126>>>>,
      <<Str(<<"f", "6">>),
        <<27, 91, 49, 55, 126>>>>,
      <<Str(<<"f", "7">>),
        <<27, 91, 49, 56, 126>>>>,
      <<Str(<<"f", "8">>),
        <<27, 91, 49, 57, 126>>>>,
      <<Str(<<"f", "9">>),
        <<27, 91, 50, 48, 126>>>>,
      <<Str(<<"f", "1", "0">>),
        <<27, 91, 50, 49, 126>>>>,
      <<Str(<<"f", "1", "1">>),
        <<27, 91, 50, 51, 126>>>>,
      <<Str(<<"f", "1", "2">>),
        <<27, 91, 50, 52, 126>>>>,
      <<Str(<<"c", "t", "r", "l", "+", "s", "p", "a", "c", "e">>),
        <<0>>>>
    }

\* the input of the latest translation and the bytes written for it
translated == written # <<>>
the_input == inputs[1]
the_bytes == written[1]

\* C27: parse_input maps every name of the key table (arrows, home and end,
\* pageup and pagedown, insert and delete, enter and return, space, tab,
\* backspace, escape and esc, f1 to f12, ctrl+letter and ctrl+space), written
\* in any letter case, to exactly the bytes the table lists.
C27_KeyTableBytes ==
    translated =>
        /\ \A e \in TableOfKeys : same_name(the_input, e[1]) => the_bytes = e[2]
        /\ \A b \in 97..122 :
               same_name(the_input, CTRL_PLUS \o <<b>>) => the_bytes = <<b - 97 + 1>>

\* CTRL+C in upper case has been translated to the byte 3
C27_Witness ==
    /\ translated
    /\ the_input = Str(<<"C", "T", "R", "L", "+", "C">>)
    /\ the_bytes = <<3>>

\* an input of the form alt+X, and its X
ALT_PLUS == Str(<<"a", "l", "t", "+">>)
is_alt_plus(s) == Len(s) >= 4 /\ same_name(SubSeq(s, 1, 4), ALT_PLUS)
alt_key(s) == SubSeq(s, 5, Len(s))

\* C28: for every input of the form alt+X the bytes written to the child are
\* 0x1B followed by the bytes of X exactly as given in the input: the same
\* letter case and all of X.
C28_AltSendsEscThenKey ==
    translated /\ is_alt_plus(the_input) => the_bytes = <<27>> \o alt_key(the_input)

\* the input is an entry of the key table, in some letter case
is_table_entry(s) ==
    \/ \E e \in TableOfKeys : same_name(s, e[1])
    \/ \E b \in 97..122 : same_name(s, CTRL_PLUS \o <<b>>)
    \/ is_alt_plus(s)

\* C29: every input name that is not an entry of the key table is written to
\* the child as the own bytes of the name, unchanged: same letter case,
\* nothing trimmed, nothing added and nothing translated.
C29_OtherNamesVerbatim ==
    translated /\ ~is_table_entry(the_input) => the_bytes = the_input

\* the names parse_input matches besides those of the key table
AliasNames ==
    {Str(<<"p", "a", "g", "e", "_", "u", "p">>),
     Str(<<"p", "g", "u", "p">>),
     Str(<<"p", "a", "g", "e", "_", "d", "o", "w", "n">>),
     Str(<<"p", "g", "d", "n">>),
     Str(<<"i", "n", "s">>),
     Str(<<"d", "e", "l">>),
     Str(<<"b", "s">>)}

\* the name as parse_input compares it: lower-cased, surrounding whitespace
\* trimmed
normal_name(s) == trim(to_lowercase(s))

is_named_key(s) ==
    \/ \E e \in TableOfKeys : normal_name(s) = e[1]
    \/ normal_name(s) \in AliasNames

has_alt_prefix(s) ==
    \/ starts_with(normal_name(s), Str(<<"a", "l", "t", "+">>))
    \/ starts_with(normal_name(s), Str(<<"a", "l", "t", "-">>))
    \/ starts_with(normal_name(s), Str(<<"m", "-">>))

is_ctrl_key(s) ==
    /\ \/ starts_with(normal_name(s), Str(<<"c", "t", "r", "l", "+">>))
       \/ starts_with(normal_name(s), Str(<<"c", "t", "r", "l", "-">>))
       \/ starts_with(normal_name(s), Str(<<"c", "-">>))
    /\ LET key == last_segment(normal_name(s))
       IN  \/ Len(key) = 1 /\ key[1] \in 97..122
           \/ key = Str(<<"s", "p", "a", "c", "e">>)

\* C29 as amended: every input name that, lower-cased and trimmed of
\* surrounding whitespace, is neither a name of the key table nor one of the
\* aliases page_up, pgup, page_down, pgdn, ins, del, bs, does not start with
\* alt+, alt- or m-, and is not ctrl+, ctrl- or c- ending after its last + or -
\* in a single letter or in space, is written as its own bytes unchanged.
C29_UnmatchedNamesVerbatim ==
    translated /\ ~is_named_key(the_input) /\ ~has_alt_prefix(the_input)
               /\ ~is_ctrl_key(the_input)
        => the_bytes = the_input

\* a name in mixed case that is no key has been written as it is
C29_Witness ==
    /\ translated
    /\ the_input = Str(<<"H", "e", "l", "l", "o">>)
    /\ the_bytes = the_input

-----------------------------------------------------------------------------
(* Properties of the capture driver *)

run_ok == pc = "done" /\ result.tag = "ok"

\* C4: a successful run with N inputs returns exactly N + 1 captures whose
\* steps are 0, 1, ..., N; capture 0 has no input label and capture k is
\* labelled with the k-th input string exactly as given.
C4_CapturesPerInput ==
    run_ok =>
        /\ Len(result.captures) = Len(inputs) + 1
        /\ \A k \in 1..Len(result.captures) : result.captures[k].step = k - 1
        /\ result.captures[1].input = None
        /\ \A k \in 1..Len(inputs) : result.captures[k + 1].input = Some(inputs[k])

\* a successful run with two different inputs
C4_Witness ==
    /\ run_ok
    /\ Len(inputs) = 2
    /\ inputs[1] # inputs[2]
    /\ Len(result.captures) = 3

is_prefix(a, b) == Len(a) <= Len(b) /\ SubSeq(b, 1, Len(a)) = a

RECURSIVE concat(_)
concat(chunks) == IF chunks = <<>> THEN <<>> ELSE Head(chunks) \o concat(Tail(chunks))

\* C5: under every interleaving of the reader thread and the driver, the bytes
\* fed to the emulator are a prefix of the bytes the reader has read, in the
\* same order; while the receiver lives, what has been read and not fed is
\* exactly what the queue and the reader's buffer hold, in order.
C5_FedIsPrefixOfRead ==
    /\ is_prefix(fedLog, readLog)
    /\ rx_alive /\ Len(readLog) < MaxLog =>
           readLog = fedLog \o concat(queue) \o reader_chunk

\* two chunks wait in the queue while a third byte has been read
C5_Witness ==
    /\ Len(queue) = 2
    /\ queue[1] # queue[2]
    /\ Len(fedLog) >= 1
    /\ Len(readLog) = MaxLog

\* the emulator state after exactly the bytes received so far
fed_terminal == ingest_chunk(fedLog, Vt100Parser_new(size[1], size[2]))

\* C6: each capture is the rasterization of the emulator state after exactly
\* the bytes the driver had received when its settle completed, the emulator
\* holds exactly the received bytes at every moment, and later bytes never
\* change a capture already taken.
C6_CaptureIsFedState ==
    /\ [](Len(fedLog) < MaxLog => terminal = fed_terminal)
    /\ [][/\ Len(captures') >= Len(captures)
          /\ SubSeq(captures', 1, Len(captures)) = captures
          /\ Len(captures') > Len(captures) /\ Len(fedLog) < MaxLog =>
                 captures'[Len(captures')].image_data = render_to_png(fed_terminal)]_vars

\* two captures with different pictures, and bytes received after the second
C6_Witness ==
    /\ Len(captures) = 2
    /\ captures[1].image_data # captures[2].image_data
    /\ render_to_png(terminal) # captures[2].image_data
    /\ Len(fedLog) < MaxLog

in_settle == pc \in {"drain_check", "drain_recv", "final_drain"}

\* C7: inputs are written to the PTY in the order given, each exactly once,
\* each flushed before its settle phase starts, and input k is written only
\* after capture k - 1 has been taken.
C7_InputsInOrder ==
    /\ Len(written) <= Len(inputs)
    /\ \A k \in 1..Len(written) : written[k] = parse_input(inputs[k])
    /\ Len(written) <= Len(captures)
    /\ Len(written) \in {loop_i, loop_i + 1}
    /\ in_settle /\ ret = "capture_input" => flushed = Len(written) /\ flushed = loop_i + 1
    /\ run_ok => Len(written) = Len(inputs) /\ flushed = Len(inputs)

\* the settle of the second of two different inputs
C7_Witness ==
    /\ in_settle /\ ret = "capture_input"
    /\ Len(written) = 2
    /\ written[1] # written[2]

\* C8: the run terminates even when the child emits output continuously: every
\* settle phase (the timed loop and the final non-blocking drain) ends, and so
\* does the wait for child exit.
C8_RunTerminates == <>(pc = "done")

\* C9: if opening the PTY, spawning the child, cloning the reader, taking the
\* writer, or writing or flushing an input fails, the run returns an error and
\* no captures at all; reaching a settle maximum is never reported as an error.
C9_FailureReturnsNoCaptures ==
    pc = "done" =>
        /\ failed # "none" => result.tag = "err" /\ result.captures = <<>>
        /\ failed = "none" => result.tag = "ok"

\* a flush or write failure on the second input, after two captures were taken
\* and a settle had ended at its maximum
C9_Witness ==
    /\ pc = "done"
    /\ failed \in {"write_all", "flush"}
    /\ Len(captures) = 2
    /\ timedOut
    /\ result.tag = "err"

\* C10: whenever the run returns after the child has been spawned, with a
\* result or with an error, the child is no longer running.
C10_ChildStoppedAtReturn ==
    pc = "done" /\ child # "none" => child # "running"

-----------------------------------------------------------------------------
(* Properties of PtyBackend::capture *)

\* C30: with an empty input list, the image PtyBackend::capture returns is the
\* image capture 0 of run holds for the same stream: the screen as it is
\* when the initial settle completes, not a later screen
C30_CaptureIsInitialScreen ==
    (pc = "done" /\ result.tag = "ok")
        => result.captures[1].image_data = captures[1].image_data

-----------------------------------------------------------------------------
(* Properties of the settle phase *)

\* the loop of a settle phase is left at this step
settle_loop_left == pc \in {"drain_check", "drain_recv"} /\ pc' = "final_drain"

\* the settle phase returns to its caller at this step
settle_returns == pc = "final_drain" /\ pc' # "final_drain"

-----------------------------------------------------------------------------
(* Properties of the rasterizer *)

\* the image the rasterizer returned
the_image == captures[1]

\* the effective colours of cell (cx, cy), 0-based: inverse swaps first, bold
\* then brightens the foreground
effective_fg(t, cx, cy) ==
    LET a == t.attributes[cy + 1][cx + 1]
        f == IF a.inverse THEN t.bg_colors[cy + 1][cx + 1] ELSE t.fg_colors[cy + 1][cx + 1]
    IN  IF a.bold THEN brighten_color(f) ELSE f
effective_bg(t, cx, cy) ==
    LET a == t.attributes[cy + 1][cx + 1]
    IN  IF a.inverse THEN t.fg_colors[cy + 1][cx + 1] ELSE t.bg_colors[cy + 1][cx + 1]

UnderlineRows == {14, 15}

\* the colour pixel (X, Y) has by the rule of the claim
pixel_by_rule(t, X, Y) ==
    LET cx == X \div CELL_WIDTH
        cy == Y \div CELL_HEIGHT
        gx == (X % CELL_WIDTH) \div 2
        gy == (Y % CELL_HEIGHT) \div 2
        row == get_char_bitmap(t.buffer[cy + 1][cx + 1])[gy + 1]
        lit == (row \div (2 ^ gx)) % 2 = 1
    IN  IF lit \/ (t.attributes[cy + 1][cx + 1].underline /\ gy \in UnderlineRows)
        THEN effective_fg(t, cx, cy)
        ELSE effective_bg(t, cx, cy)

\* C32: the image is cols * 16 wide and rows * 32 high, every pixel of it is
\* drawn, and pixel (X, Y) has the colour that cell (X div 16, Y div 32)
\* alone gives it: the effective foreground where the glyph bit is set or the
\* underline falls, else the effective background
C32_PixelsFollowCells ==
    pc = "rendered" =>
        /\ the_image.width = size[1] * CELL_WIDTH
        /\ the_image.height = size[2] * CELL_HEIGHT
        /\ \A q \in the_image.pixels :
              /\ q[1] \in 0..(the_image.width - 1)
              /\ q[2] \in 0..(the_image.height - 1)
              /\ q[3] = pixel_by_rule(terminal, q[1], q[2])
        /\ Cardinality({<<q[1], q[2]>> : q \in the_image.pixels})
              = the_image.width * the_image.height

\* a two-cell grid whose second cell is an inverse, bold, underlined A
C32_Witness ==
    /\ pc = "rendered"
    /\ size = <<2, 1>>
    /\ terminal.buffer[1][2] = "A"
    /\ terminal.attributes[1][2] = [bold |-> TRUE, underline |-> TRUE, inverse |-> TRUE]
    /\ terminal.fg_colors[1][1] # terminal.fg_colors[1][2]
    /\ the_image.pixels # {}


\* the colour the image has at pixel (X, Y)
pixel_at(X, Y) == (CHOOSE q \in the_image.pixels : q[1] = X /\ q[2] = Y)[3]

\* pixel (4, 0) is a set bit of the glyph of A: it shows the foreground
drawn_fg == pixel_at(4, 0)
bold_A_rendered ==
    /\ pc = "rendered"
    /\ terminal.buffer[1][1] = "A"
    /\ terminal.attributes[1][1].bold
    /\ ~terminal.attributes[1][1].inverse

\* C33: every channel c of a bold foreground is drawn as
\* max(saturating_add(c, 64), (c * 4) / 3), the product c * 4 not truncated,
\* and the drawn value is within 0..255
C33_BrightenUntruncated ==
    bold_A_rendered =>
        \A i \in 1..3 :
            LET c == terminal.fg_colors[1][1][i]
                sat == IF c + 64 > U8_MAX THEN U8_MAX ELSE c + 64
                wide == (c * 4) \div 3
            IN  /\ drawn_fg[i] = (IF sat >= wide THEN sat ELSE wide)
                /\ drawn_fg[i] \in 0..U8_MAX

\* C33 as amended: every channel c of a bold foreground is drawn as
\* max(saturating_add(c, 64), saturating_mul(c, 4) / 3), the product
\* saturating at 255 before the division, which is saturating_add(c, 64) for
\* every c; the drawn value is within 0..255
C33_BrightenSaturating ==
    bold_A_rendered =>
        \A i \in 1..3 :
            LET c == terminal.fg_colors[1][1][i]
                sat == IF c + 64 > U8_MAX THEN U8_MAX ELSE c + 64
                mul == IF c * 4 > U8_MAX THEN U8_MAX ELSE c * 4
                third == mul \div 3
            IN  /\ drawn_fg[i] = (IF sat >= third THEN sat ELSE third)
                /\ drawn_fg[i] = sat
                /\ drawn_fg[i] \in 0..U8_MAX

\* a bold A whose red channel is 200 has been drawn: 200 * 4 / 3 is 266
C33_Witness ==
    /\ bold_A_rendered
    /\ terminal.fg_colors[1][1][1] = 200
    /\ drawn_fg[1] = U8_MAX

\* the grid of a state with everything but the cells as at construction
cells_only(t) ==
    [Vt100Terminal_new(t.width, t.height) EXCEPT
        !.buffer = t.buffer, !.fg_colors = t.fg_colors,
        !.bg_colors = t.bg_colors, !.attributes = t.attributes]

\* C34: the image is the image of the cells alone, so two states with the
\* same cells give the same pixels whatever their cursor, pen, saved cursor
\* and alternate-screen state are; and rasterizing leaves the emulator as it
\* was
C34_RasterizeIsPure ==
    /\ [](pc = "rendered" => the_image = render_pixels(cells_only(terminal)))
    /\ [][pc' = "rendered" /\ pc # "rendered" => terminal' = terminal]_vars

\* a two-cell grid in the alternate screen with the cursor on the second
\* cell, a saved cursor and a changed pen has been rasterized
C34_Witness ==
    /\ pc = "rendered"
    /\ size = <<2, 1>>
    /\ terminal.in_alternate_screen
    /\ terminal.cursor_x = 1
    /\ terminal.saved_cursor # None
    /\ terminal.current_fg # terminal.default_fg
    /\ terminal.buffer[1][2] = "A"
    /\ the_image.pixels # {}

-----------------------------------------------------------------------------
(* Properties of the pen and of the alternate-screen slot *)

\* CSI 2 J and CSI 3 J
is_clear_all(ev) == is_csi(ev, "J") /\ ev.params \in {P(<<2>>), P(<<3>>)}

\* C35: on a grid with at least one cell, a callback that is neither an SGR
\* sequence nor ESC c leaves the pen as it was, and CSI 2 J, CSI 3 J and
\* entering the alternate screen also leave the saved-cursor slot as it was
C35_PenChangesOnlyBySgr ==
    [][(fed_ok /\ size[1] >= 1 /\ size[2] >= 1) =>
          /\ (~is_csi(last_ev', "m") /\ ~is_reset(last_ev'))
                => pen_of(terminal') = pen_of(terminal)
          /\ (is_clear_all(last_ev') \/ is_enter_alt(last_ev'))
                => terminal'.saved_cursor = terminal.saved_cursor ]_vars


\* C36: the saved primary screen is present exactly when the emulator is in
\* the alternate screen; both change only on a set or reset of DEC private
\* mode 47, 1047 or 1049; ESC c inside the alternate screen stays inside and
\* keeps the snapshot taken at the enter, and the leave that follows restores
\* that grid and cursor
C36_SnapshotWithAltScreen ==
    /\ [](terminal.in_alternate_screen <=> is_some(terminal.alternate_screen))
    /\ [][fed_ok =>
            /\ ~(is_enter_alt(last_ev') \/ is_leave_alt(last_ev')) =>
                  /\ terminal'.in_alternate_screen = terminal.in_alternate_screen
                  /\ terminal'.alternate_screen = terminal.alternate_screen
            /\ (is_reset(last_ev') /\ terminal.in_alternate_screen) =>
                  /\ terminal'.in_alternate_screen
                  /\ terminal'.alternate_screen = alt_hist.saved
            /\ (is_leave_alt(last_ev') /\ terminal.in_alternate_screen) =>
                  /\ ~terminal'.in_alternate_screen
                  /\ terminal'.alternate_screen = None
                  /\ screen_of(terminal') = unwrap(alt_hist.saved)]_vars

\* ESC c has just been fed inside the alternate screen, and the snapshot of a
\* primary screen that held text is still there
C36_Witness ==
    /\ is_reset(last_ev)
    /\ ~panicked
    /\ terminal.in_alternate_screen
    /\ is_some(terminal.alternate_screen)
    /\ has_text(unwrap(terminal.alternate_screen).buffer)

-----------------------------------------------------------------------------
(* Properties of the SendKey translation *)

\* C37: for every name of the key table, in any letter case, both copies of
\* key_to_sequence write the bytes the table lists for it, which are the
\* bytes parse_input writes for it
C37_SendKeyMatchesTable ==
    pc \in {"sent_pty", "sent_backend"} =>
        \A e \in TableOfKeys :
            same_name(the_input, e[1]) =>
                /\ the_bytes = e[2]
                /\ the_bytes = parse_input(the_input)

-----------------------------------------------------------------------------
(* Properties of run_harness *)

\* the inputs of states 1..k, in order
RECURSIVE inputs_up_to(_)
inputs_up_to(k) == IF k = 0 THEN <<>> ELSE inputs_up_to(k - 1) \o inputs[k].inputs

\* C38: the child whose screen is captured for a state has received the
\* inputs of every earlier state, in order, followed by the inputs of that
\* state
C38_InputsStartFromPreviousState ==
    \A k \in 1..Len(captures) :
        captures[k].received = inputs_up_to(captures[k].state)

\* C39: no two snapshots of one run_harness call have the same image path,
\* however close in time they were taken
C39_ImagePathsDistinct ==
    \A j, k \in 1..Len(captures) :
        j # k => captures[j].image_path # captures[k].image_path


\* C40: PtyBackend::capture returns, whatever the child prints and however
\* long it goes on printing: every timed drain loop it enters is left again,
\* and the call reaches its return
C40_CaptureReturns ==
    /\ (pc = "cap_drain_recv") ~> (pc # "cap_drain_recv")
    /\ <>(pc = "done")

====
